---- MODULE Spec2Model ----
(***************************************************************************)
(* Perudo (Liar's Dice): the action arithmetic of perudo/actions.py, the   *)
(* round / game state machine of perudo/perudo_game.py, and the signed     *)
(* envelope of perudo/network_stuff/messaging.py with the serialisation of *)
(* perudo/common.py under it.                                              *)
(*                                                                         *)
(* Python lists indexed by player (remaining dice, dice of a round) are    *)
(* functions over 0..num_players-1; logs and histories are sequences, so   *)
(* the entry Python calls log[i] is log[i+1] here.                         *)
(***************************************************************************)
EXTENDS Integers, Sequences, FiniteSets, TLC

VARIABLES
    num_players,                \* len(self.players)
    num_dice_by_player_history, \* PerudoGame.num_dice_by_player_history
    cur_player_index,           \* PerudoGame.cur_player_index
    cur_round_single_die,       \* PerudoGame.cur_round_single_die
    all_rounds_actions,         \* PerudoGame.all_rounds_actions
    all_rounds_dice_counts,     \* PerudoGame.all_rounds_dice_counts
    all_rounds_losers,          \* PerudoGame.all_rounds_losers
    single_die_round_history,   \* PerudoGame.single_die_round_history
    player_dice_counts,         \* PlayerABC.dice_counts of each player
    player_global_index,        \* PlayerABC.global_index of each player (-1: None)
    pc,                         \* where main_loop is
    main_loop_result,           \* what main_loop returned (-1: nothing yet)
    call,                       \* the last direct call of a method of actions.py or perudo_game.py
    RECEIVED_SALTS,             \* WrappedMessage.RECEIVED_SALTS
    SENT_SALTS,                 \* WrappedMessage.SENT_SALTS
    sent,                       \* what the calls of from_data returned, in order
    received,                   \* the calls of from_bytes: input and outcome, in order
    connections,                \* the Connection objects, by name or by socket
    net_call,                   \* the last call of a method of network_stuff, and its result
    rooms,                      \* Server.room_name_to_game_manager_d, by reference
    tasks                       \* the handler coroutines of the server, by socket

vars == <<num_players, num_dice_by_player_history, cur_player_index,
          cur_round_single_die, all_rounds_actions, all_rounds_dice_counts,
          all_rounds_losers, single_die_round_history, player_dice_counts,
          player_global_index, pc, main_loop_result, call,
          RECEIVED_SALTS, SENT_SALTS, sent, received,
          connections, net_call, rooms, tasks>>

game_vars == <<num_players, num_dice_by_player_history, cur_player_index,
               cur_round_single_die, all_rounds_actions, all_rounds_dice_counts,
               all_rounds_losers, single_die_round_history, player_dice_counts,
               player_global_index, pc, main_loop_result>>

envelope_vars == <<RECEIVED_SALTS, SENT_SALTS, sent, received>>

\* the class attributes of WrappedMessage when the module has been loaded,
\* and no envelope built or parsed yet
InitEnvelope ==
    /\ RECEIVED_SALTS = <<>>
    /\ SENT_SALTS = {}
    /\ sent = <<>>
    /\ received = <<>>

network_vars == <<connections, net_call, rooms, tasks>>

\* no connection accepted, no room registered
InitNetwork ==
    /\ connections = <<>>
    /\ net_call = [op |-> "none", nth |-> 0]
    /\ rooms = <<>>
    /\ tasks = <<>>

----------------------------------------------------------------------------
(* Bounds of the model *)

\* most players in a game
MaxPlayers == 3
\* most dice one player starts with
MaxStartDice == 2
\* most dice in a game at its start
MaxTotalDice == 3
\* dice roll faces MIN_FACE_VAL..MaxRollFace
MaxRollFace == 3
\* players bid faces MIN_FACE_VAL..MaxBidFace in a game (and MAX_FACE_VAL+1)
MaxBidFace == 2
\* players bid counts 0..MaxBidCount in a game
MaxBidCount == 1
\* counts of the bids handed to the methods of actions.py called directly
MaxCount == 4
\* most dice in the aggregate handed to get_losers called directly
MaxAggDice == 3
\* secrets.token_bytes returns one of the salts 1..MaxSalt
MaxSalt == 2
\* most calls of from_data in a run of the envelope
MaxSent == 2
\* most calls of from_bytes in a run of the envelope
MaxReceived == 3
\* most calls of the methods of Connection in a run of the transport
MaxNetCalls == 3
\* the largest number of players of a kind a CreateRoom asks for, in the
\* direct calls
MaxAsked == 3

----------------------------------------------------------------------------
(* perudo/common.py *)

WILD_FACE_VAL == 1
MIN_FACE_VAL == 1
MAX_FACE_VAL == 6
NUM_FACES == MAX_FACE_VAL - MIN_FACE_VAL + 1

validate_face(face) == MIN_FACE_VAL <= face /\ face <= MAX_FACE_VAL

Faces == MIN_FACE_VAL..MAX_FACE_VAL

\* DiceCounts._counts: a list of NUM_FACES counts, the count of face f at
\* index f - MIN_FACE_VAL
DiceCounts_from_empty == [i \in 1..NUM_FACES |-> 0]

DiceCounts_getitem(dice_counts, face) == dice_counts[face - MIN_FACE_VAL + 1]

DiceCounts_get_num_dice(dice_counts) ==
    LET RECURSIVE Sum(_)
        Sum(i) == IF i = 0 THEN 0 ELSE dice_counts[i] + Sum(i - 1)
    IN  Sum(NUM_FACES)

\* the DiceCounts of the rolled faces (a sequence of faces)
DiceCounts_of_rolls(rolls) ==
    [i \in 1..NUM_FACES |->
        Cardinality({k \in DOMAIN rolls : rolls[k] - MIN_FACE_VAL + 1 = i})]

\* every DiceCounts from_random(num_dice) may return
DiceCounts_from_random(num_dice) ==
    {DiceCounts_of_rolls(rolls) :
        rolls \in [1..num_dice -> MIN_FACE_VAL..MaxRollFace]}

\* from_multi_counts over the per-player DiceCounts of a round
DiceCounts_from_multi_counts(dice_counts_s) ==
    LET RECURSIVE Sum(_, _)
        Sum(p, i) == IF p < 0 THEN 0 ELSE dice_counts_s[p][i] + Sum(p - 1, i)
    IN  [i \in 1..NUM_FACES |-> Sum(Cardinality(DOMAIN dice_counts_s) - 1, i)]

----------------------------------------------------------------------------
(* perudo/actions.py: the actions *)

\* Python's None as a previous_action or an attempted_action
None == [type |-> "None"]

Bid(face, count) == [type |-> "Bid", face |-> face, count |-> count]
Challenge == [type |-> "Challenge"]
Exact == [type |-> "Exact"]
NoOpFirstTurnSkip == [type |-> "NoOpFirstTurnSkip"]
NoOpDead == [type |-> "NoOpDead"]
InvalidAction(attempted_action, reason) ==
    [type |-> "InvalidAction", attempted_action |-> attempted_action,
     reason |-> reason]

\* an exception that left the method instead of a return value
RuntimeError == [type |-> "RuntimeError"]
AssertionError == [type |-> "AssertionError"]

IsRaise(value) == value.type \in {"RuntimeError", "AssertionError"}
IsBid(action) == action.type = "Bid"
IsNoOp(action) == action.type \in {"NoOp", "NoOpFirstTurnSkip", "NoOpDead"}
\* seeded fault: Exact taken for an action that does not end the round
IsEndAction_not_Exact(action) == action.type \in {"Challenge", "InvalidAction"}
IsEndAction(action) == action.type \in {"Challenge", "Exact", "InvalidAction"}

\* math.ceil(count / 2)
CeilHalf(count) == IF count % 2 = 0 THEN count \div 2 ELSE (count \div 2) + 1

\* seeded fault: min_next_count rounding count/2 down when wrapping to a lower face
min_next_count_wrong_wrap(self, next_face) ==
    IF next_face = self.face THEN self.count + 1
    ELSE IF next_face > self.face /\ self.face # WILD_FACE_VAL THEN self.count
    ELSE IF next_face = WILD_FACE_VAL THEN CeilHalf(self.count)
    ELSE IF self.face = WILD_FACE_VAL THEN self.count * 2 + 1
    ELSE (self.count \div 2) * 2 + 1

\* Bid.min_next_count; its two asserts are the guard of CallMinNextCount
min_next_count(self, next_face) ==
    IF next_face = self.face THEN self.count + 1
    ELSE IF next_face > self.face /\ self.face # WILD_FACE_VAL THEN self.count
    ELSE IF next_face = WILD_FACE_VAL THEN CeilHalf(self.count)
    ELSE IF self.face = WILD_FACE_VAL THEN self.count * 2 + 1
    ELSE CeilHalf(self.count) * 2 + 1

\* seeded fault: Bid.validate without the opening-bid rule for the wild face
Bid_validate_no_opening_rule(self, previous_action, is_single_die_round) ==
    IF ~validate_face(self.face) THEN InvalidAction(self, "Invalid Face")
    ELSE IF self.count <= 0 THEN InvalidAction(self, "Non-positive Count")
    ELSE IF previous_action = None THEN self
    ELSE IF ~IsBid(previous_action)
        THEN InvalidAction(self, "Following non-bid (should be impossible)")
    ELSE IF self.count < min_next_count(previous_action, self.face)
        THEN InvalidAction(self, "Count for face must be at least min_count")
    ELSE self

Bid_validate(self, previous_action, is_single_die_round) ==
    IF ~validate_face(self.face) THEN InvalidAction(self, "Invalid Face")
    ELSE IF self.count <= 0 THEN InvalidAction(self, "Non-positive Count")
    ELSE IF previous_action = None
        THEN IF self.face = 1 /\ ~is_single_die_round
             THEN InvalidAction(self, "Invalid Starting Bid")
             ELSE self
    ELSE IF ~IsBid(previous_action)
        THEN InvalidAction(self, "Following non-bid (should be impossible)")
    ELSE IF self.count < min_next_count(previous_action, self.face)
        THEN InvalidAction(self, "Count for face must be at least min_count")
    ELSE self

\* seeded fault: Challenge.validate accepting an opening move
Challenge_validate_always_valid(self, previous_action, is_single_die_round) ==
    self

\* Challenge.validate, which Exact.validate is too
Challenge_validate(self, previous_action, is_single_die_round) ==
    IF previous_action = None
    THEN InvalidAction(self, "Can't use as opening move")
    ELSE self

InvalidAction_validate(self, previous_action, is_single_die_round) == self

NoOp_validate(self, previous_action, is_single_die_round) == RuntimeError

\* action.validate(...): the method of the action's class
validate(action, previous_action, is_single_die_round) ==
    CASE IsBid(action) ->
            Bid_validate(action, previous_action, is_single_die_round)
      [] action.type \in {"Challenge", "Exact"} ->
            Challenge_validate(action, previous_action, is_single_die_round)
      [] action.type = "InvalidAction" ->
            InvalidAction_validate(action, previous_action, is_single_die_round)
      [] OTHER ->
            NoOp_validate(action, previous_action, is_single_die_round)

\* num_existing of Challenge.get_losers and Exact.get_losers
num_existing(previous_action, all_dice_counts, is_single_die_round) ==
    DiceCounts_getitem(all_dice_counts, previous_action.face)
    + (IF ~is_single_die_round /\ previous_action.face # WILD_FACE_VAL
       THEN DiceCounts_getitem(all_dice_counts, WILD_FACE_VAL)
       ELSE 0)

InvalidAction_get_losers(previous_action, all_dice_counts, is_single_die_round, caller, previous_player, other_players) ==
    <<caller>>

\* seeded fault: Challenge.get_losers with <= for <
Challenge_get_losers_at_most(previous_action, all_dice_counts, is_single_die_round, caller, previous_player, other_players) ==
    IF ~IsBid(previous_action) THEN <<caller>>
    ELSE IF num_existing(previous_action, all_dice_counts, is_single_die_round)
              <= previous_action.count
         THEN <<previous_player>>
         ELSE <<caller>>

Challenge_get_losers(previous_action, all_dice_counts, is_single_die_round, caller, previous_player, other_players) ==
    IF ~IsBid(previous_action) THEN <<caller>>
    ELSE IF num_existing(previous_action, all_dice_counts, is_single_die_round)
              < previous_action.count
         THEN <<previous_player>>
         ELSE <<caller>>

\* seeded fault: Exact.get_losers counting wild dice in single-die rounds too
Exact_get_losers_wild_always(previous_action, all_dice_counts, is_single_die_round, caller, previous_player, other_players) ==
    IF ~IsBid(previous_action) THEN <<caller>>
    ELSE IF num_existing(previous_action, all_dice_counts, FALSE)
              = previous_action.count
         THEN other_players
         ELSE <<caller>>

Exact_get_losers(previous_action, all_dice_counts, is_single_die_round, caller, previous_player, other_players) ==
    IF ~IsBid(previous_action) THEN <<caller>>
    ELSE IF num_existing(previous_action, all_dice_counts, is_single_die_round)
              = previous_action.count
         THEN other_players
         ELSE <<caller>>

\* action.get_losers(...): the method of the EndAction's class
get_losers(action, previous_action, all_dice_counts, is_single_die_round, caller, previous_player, other_players) ==
    CASE action.type = "Challenge" ->
            Challenge_get_losers(previous_action, all_dice_counts,
                is_single_die_round, caller, previous_player, other_players)
      [] action.type = "Exact" ->
            Exact_get_losers(previous_action, all_dice_counts,
                is_single_die_round, caller, previous_player, other_players)
      [] OTHER ->
            InvalidAction_get_losers(previous_action, all_dice_counts,
                is_single_die_round, caller, previous_player, other_players)

----------------------------------------------------------------------------
(* perudo/perudo_game.py: PerudoGame *)

Players == 0..(num_players - 1)

Last(seq) == seq[Len(seq)]

Range(seq) == {seq[k] : k \in DOMAIN seq}

\* self.num_dice_by_player_history[-1]
cur_num_dice == Last(num_dice_by_player_history)

current_round_actions == Last(all_rounds_actions)

current_round_dice_by_player == Last(all_rounds_dice_counts)

\* the number of players with dice in a snapshot
num_living(snapshot) == Cardinality({p \in DOMAIN snapshot : snapshot[p] > 0})

\* sum(snapshot)
DiceSum(snapshot) ==
    LET RECURSIVE Sum(_)
        Sum(p) == IF p < 0 THEN 0 ELSE snapshot[p] + Sum(p - 1)
    IN  Sum(Cardinality(DOMAIN snapshot) - 1)

\* what get_previous/get_next_living_player_index return when they raise
NoLivingPlayer == -1

\* seeded fault: the previous seat, dead or alive
get_previous_living_player_index_no_skip(snapshot, cur) ==
    (cur - 1) % Cardinality(DOMAIN snapshot)

get_previous_living_player_index(snapshot, cur) ==
    LET n == Cardinality(DOMAIN snapshot)
        RECURSIVE Loop(_)
        Loop(prev_index) ==
            IF snapshot[prev_index] = 0
            THEN IF prev_index = cur THEN NoLivingPlayer
                 ELSE Loop((prev_index - 1) % n)
            ELSE prev_index
    IN  Loop((cur - 1) % n)

\* seeded fault: the next seat, dead or alive
get_next_living_player_index_no_skip(snapshot, cur) ==
    (cur + 1) % Cardinality(DOMAIN snapshot)

get_next_living_player_index(snapshot, cur) ==
    LET n == Cardinality(DOMAIN snapshot)
        RECURSIVE Loop(_)
        Loop(next_index) ==
            IF snapshot[next_index] = 0
            THEN IF next_index = cur THEN NoLivingPlayer
                 ELSE Loop((next_index + 1) % n)
            ELSE next_index
    IN  Loop((cur + 1) % n)

\* None, the most recent action that is no NoOp, or the failed assertion
get_most_recent_non_noop_action(round_actions) ==
    LET RECURSIVE Scan(_)
        Scan(k) ==
            IF k = 0 THEN None
            ELSE IF IsNoOp(round_actions[k]) THEN Scan(k - 1)
            ELSE IF IsBid(round_actions[k]) THEN round_actions[k]
            ELSE AssertionError
    IN  Scan(Len(round_actions))

\* the dice start_new_round may roll: from_random(num_dice) for each player
RolledDice(snapshot) ==
    LET RECURSIVE Rolls(_)
        Rolls(k) ==
            IF k = 0 THEN {<<>>}
            ELSE {Append(s, d) : s \in Rolls(k - 1),
                                 d \in DiceCounts_from_random(snapshot[k - 1])}
    IN  {[p \in DOMAIN snapshot |-> s[p + 1]] :
            s \in Rolls(Cardinality(DOMAIN snapshot))}

\* seeded fault: start_new_round without the padding
first_turn_skips_none(first_player_index) == <<>>

\* the list start_new_round opens a round's log with
first_turn_skips(first_player_index) ==
    [k \in 1..first_player_index |-> NoOpFirstTurnSkip]

\* start_new_round, called when the round logs, the remaining-dice history and
\* the losers' history have become acts, hist and losers
start_new_round(first_player_index, single_die_round, acts, hist, losers) ==
    /\ num_dice_by_player_history' = hist
    /\ all_rounds_losers' = losers
    /\ UNCHANGED <<num_players, main_loop_result, call, envelope_vars, network_vars>>
    /\ IF \/ ~(0 <= first_player_index /\ first_player_index < num_players)
          \/ Last(hist)[first_player_index] < 1
       THEN \* RuntimeError: Invalid first_player_index
            /\ pc' = "raised"
            /\ all_rounds_actions' = acts
            /\ UNCHANGED <<cur_player_index, cur_round_single_die,
                           all_rounds_dice_counts, single_die_round_history,
                           player_dice_counts>>
       ELSE /\ pc' = "loop"
            /\ single_die_round_history' =
                    Append(single_die_round_history, single_die_round)
            /\ cur_round_single_die' = single_die_round
            /\ all_rounds_actions' =
                    Append(acts, first_turn_skips(first_player_index))
            /\ cur_player_index' = first_player_index
            /\ \E dice \in RolledDice(Last(hist)) :
                    /\ all_rounds_dice_counts' =
                            Append(all_rounds_dice_counts, dice)
                    /\ player_dice_counts' = dice

\* seeded fault: end_round leaving the losers their dice
decrement_losers_keeps_dice(snapshot, loser_indexes) == snapshot

\* seeded fault: end_round taking two dice, without the floor
decrement_losers_no_floor(snapshot, loser_indexes) ==
    [p \in DOMAIN snapshot |->
        IF p \in Range(loser_indexes) THEN snapshot[p] - 2 ELSE snapshot[p]]

\* the snapshot end_round appends: one die less, floored at 0, for each index
\* of loser_indexes in turn
decrement_losers(snapshot, loser_indexes) ==
    LET RECURSIVE Loop(_, _)
        Loop(s, k) ==
            IF k > Len(loser_indexes) THEN s
            ELSE Loop([s EXCEPT ![loser_indexes[k]] =
                            IF s[loser_indexes[k]] - 1 > 0
                            THEN s[loser_indexes[k]] - 1 ELSE 0], k + 1)
    IN  Loop(snapshot, 1)

\* seeded fault: end_round going on only with more than two players alive
multiple_alive_more_than_two(snapshot) == num_living(snapshot) > 2

\* end_round's test for starting a new round
multiple_alive(snapshot) == num_living(snapshot) > 1

\* end_round's losers_with_dice: the losers the new snapshot leaves with dice
losers_with_dice(snapshot, loser_indexes) ==
    SelectSeq(loser_indexes, LAMBDA index : snapshot[index] > 0)

\* seeded fault: the next round always opened by the next living player
end_round_next_player_always_next_living(snapshot, loser_indexes, cur) ==
    {get_next_living_player_index(snapshot, cur)}

\* the values end_round's next_player may take: random.choice among the
\* losers with dice, else the next living player after the current one
end_round_next_player(snapshot, loser_indexes, cur) ==
    IF losers_with_dice(snapshot, loser_indexes) # <<>>
    THEN Range(losers_with_dice(snapshot, loser_indexes))
    ELSE {get_next_living_player_index(snapshot, cur)}

\* seeded fault: single-die as soon as any player at all holds one die
end_round_single_die_round_any_player(snapshot, loser_indexes) ==
    \E p \in DOMAIN snapshot : snapshot[p] = 1

\* end_round's single_die_round: any loser with dice holds exactly one die
end_round_single_die_round(snapshot, loser_indexes) ==
    \E k \in DOMAIN losers_with_dice(snapshot, loser_indexes) :
        snapshot[losers_with_dice(snapshot, loser_indexes)[k]] = 1

\* end_round, called when the round logs have become acts
end_round(loser_indexes, acts) ==
    LET losers == Append(all_rounds_losers, SortSeq(loser_indexes, LAMBDA a, b : a < b))
        snapshot == decrement_losers(cur_num_dice, loser_indexes)
        hist == Append(num_dice_by_player_history, snapshot)
    IN  /\ UNCHANGED player_global_index
        /\ IF multiple_alive(snapshot)
           THEN \E next_player \in end_round_next_player(snapshot, loser_indexes, cur_player_index) :
                    start_new_round(next_player,
                        end_round_single_die_round(snapshot, loser_indexes),
                        acts, hist, losers)
           ELSE /\ num_dice_by_player_history' = hist
                /\ all_rounds_losers' = losers
                /\ all_rounds_actions' = acts
                /\ pc' = "exit"
                /\ UNCHANGED <<num_players, main_loop_result, call, envelope_vars, network_vars, cur_player_index,
                               cur_round_single_die, all_rounds_dice_counts,
                               single_die_round_history, player_dice_counts>>

\* seeded fault: take_turn without the NoOpDead entries
dead_noops_none(cur, next_player_index) == <<>>

\* the NoOpDead entries take_turn appends after a bid, one for each index from
\* cur + 1 up to the next living player
dead_noops(cur, next_player_index) ==
    [k \in 1..((next_player_index - (cur + 1)) % num_players) |-> NoOpDead]

\* what a player's get_action may return
PlayerActions ==
    {Bid(face, count) : face \in MIN_FACE_VAL..MaxBidFace, count \in 0..MaxBidCount}
    \cup {Bid(MAX_FACE_VAL + 1, 1), Challenge, Exact, NoOpDead,
          InvalidAction(None, "Error communicating")}

\* other_living_players of take_turn, in index order
other_living_players(snapshot, cur) ==
    LET RECURSIVE Build(_)
        Build(p) ==
            IF p < 0 THEN <<>>
            ELSE IF p # cur /\ snapshot[p] > 0 THEN Append(Build(p - 1), p)
            ELSE Build(p - 1)
    IN  Build(Cardinality(DOMAIN snapshot) - 1)

\* the current round's log with one more action
with_action(action) ==
    [all_rounds_actions EXCEPT ![Len(all_rounds_actions)] = Append(@, action)]

raises_unchanged ==
    /\ pc' = "raised"
    /\ UNCHANGED <<num_players, player_global_index, num_dice_by_player_history, cur_player_index,
                   cur_round_single_die, all_rounds_dice_counts,
                   all_rounds_losers, single_die_round_history,
                   player_dice_counts, main_loop_result, call, envelope_vars, network_vars>>

\* seeded fault: the observation built from the whole of all_rounds_dice_counts
observation_whole_dice_history(rounds_dice_counts) ==
    [previous_action |-> get_most_recent_non_noop_action(current_round_actions),
     is_single_die_round |-> cur_round_single_die,
     num_players |-> num_players,
     num_living_players |-> num_living(cur_num_dice),
     num_dice_in_play |-> DiceSum(cur_num_dice),
     num_dice_by_player_history |-> num_dice_by_player_history,
     all_rounds_actions |-> all_rounds_actions,
     dice_reveal_history |-> rounds_dice_counts]

\* the ActionObservation take_turn hands to get_action when
\* all_rounds_dice_counts is rounds_dice_counts
observation(rounds_dice_counts) ==
    [previous_action |-> get_most_recent_non_noop_action(current_round_actions),
     is_single_die_round |-> cur_round_single_die,
     num_players |-> num_players,
     num_living_players |-> num_living(cur_num_dice),
     num_dice_in_play |-> DiceSum(cur_num_dice),
     num_dice_by_player_history |-> num_dice_by_player_history,
     all_rounds_actions |-> all_rounds_actions,
     dice_reveal_history |-> SubSeq(rounds_dice_counts, 1, Len(rounds_dice_counts) - 1)]

take_turn(action) ==
    LET previous_action == get_most_recent_non_noop_action(current_round_actions)
    IN
    IF cur_num_dice[cur_player_index] = 0 \/ IsRaise(previous_action)
    THEN raises_unchanged /\ UNCHANGED all_rounds_actions
    ELSE
    LET validated == validate(action, previous_action, cur_round_single_die)
    IN
    IF IsRaise(validated)
    THEN raises_unchanged /\ UNCHANGED all_rounds_actions
    ELSE IF IsEndAction(validated)
    THEN LET all_dice == DiceCounts_from_multi_counts(current_round_dice_by_player)
             previous_player ==
                get_previous_living_player_index(cur_num_dice, cur_player_index)
             losers ==
                get_losers(validated, previous_action, all_dice,
                    cur_round_single_die, cur_player_index, previous_player,
                    other_living_players(cur_num_dice, cur_player_index))
         IN  IF previous_player = NoLivingPlayer
             THEN raises_unchanged /\ all_rounds_actions' = with_action(validated)
             ELSE end_round(losers, with_action(validated))
    ELSE LET next_player_index ==
                get_next_living_player_index(cur_num_dice, cur_player_index)
         IN  IF next_player_index = NoLivingPlayer
             THEN raises_unchanged /\ all_rounds_actions' = with_action(validated)
             ELSE /\ all_rounds_actions' =
                        [all_rounds_actions EXCEPT ![Len(all_rounds_actions)] =
                            Append(@, validated)
                            \o dead_noops(cur_player_index, next_player_index)]
                  /\ cur_player_index' = next_player_index
                  /\ UNCHANGED <<num_players, num_dice_by_player_history,
                                 player_global_index, cur_round_single_die, all_rounds_dice_counts,
                                 all_rounds_losers, single_die_round_history,
                                 player_dice_counts, pc, main_loop_result, call, envelope_vars, network_vars>>

----------------------------------------------------------------------------
(* main_loop *)

\* a game as constructed: every player holds dice, no round yet
InitGame ==
    /\ num_players \in 2..MaxPlayers
    /\ num_dice_by_player_history \in
            {<<d>> : d \in {e \in [0..(num_players - 1) -> 1..MaxStartDice] :
                                 DiceSum(e) <= MaxTotalDice}}
    /\ cur_player_index = -1
    /\ cur_round_single_die = FALSE
    /\ all_rounds_actions = <<>>
    /\ all_rounds_dice_counts = <<>>
    /\ all_rounds_losers = <<>>
    /\ single_die_round_history = <<>>
    /\ player_dice_counts = [p \in 0..(num_players - 1) |-> DiceCounts_from_empty]
    /\ player_global_index = [p \in 0..(num_players - 1) |-> -1]
    /\ pc = "start"
    /\ main_loop_result = -1

\* player.initialize(index, num_players) of every player: each player learns
\* its seat; the engine's own state is not touched
initialize_players == [p \in Players |-> p]

\* main_loop up to its while loop
MainLoopStart ==
    /\ pc = "start"
    /\ player_global_index' = initialize_players
    /\ \E randomize_starting_player \in BOOLEAN :
        \E first_player_index \in
                IF randomize_starting_player THEN Players ELSE {0} :
            start_new_round(first_player_index, FALSE, all_rounds_actions,
                num_dice_by_player_history, all_rounds_losers)

\* one pass of main_loop's while loop
TakeTurn ==
    /\ pc = "loop"
    /\ \E action \in PlayerActions : take_turn(action)

\* what main_loop hands to game_end_callback and returns
main_loop_return_value == cur_player_index

\* main_loop after take_turn returned False
MainLoopReturn ==
    /\ pc = "exit"
    /\ main_loop_result' = main_loop_return_value
    /\ pc' = "returned"
    /\ UNCHANGED <<num_players, num_dice_by_player_history, cur_player_index,
                   cur_round_single_die, all_rounds_actions,
                   all_rounds_dice_counts, all_rounds_losers,
                   single_die_round_history, player_dice_counts,
                   player_global_index, call, envelope_vars, network_vars>>

Init ==
    /\ InitGame
    /\ call = [op |-> "none"]
    /\ InitEnvelope
    /\ InitNetwork

Next ==
    \/ MainLoopStart
    \/ TakeTurn
    \/ MainLoopReturn

Spec == Init /\ [][Next]_vars

\* A game constructed with any remaining dice, eliminated players included,
\* on which start_new_round(first_player_index, single_die_round) is called
\* once, as the tests call it.
InitRound ==
    /\ num_players \in 2..MaxPlayers
    /\ num_dice_by_player_history \in
            {<<d>> : d \in {e \in [0..(num_players - 1) -> 0..MaxStartDice] :
                                 DiceSum(e) <= MaxTotalDice}}
    /\ cur_player_index = -1
    /\ cur_round_single_die = FALSE
    /\ all_rounds_actions = <<>>
    /\ all_rounds_dice_counts = <<>>
    /\ all_rounds_losers = <<>>
    /\ single_die_round_history = <<>>
    /\ player_dice_counts = [p \in 0..(num_players - 1) |-> DiceCounts_from_empty]
    /\ player_global_index = [p \in 0..(num_players - 1) |-> -1]
    /\ pc = "start"
    /\ main_loop_result = -1
    /\ \E first_player_index \in -1..num_players, single_die_round \in BOOLEAN :
        call = [op |-> "start_new_round", first_player_index |-> first_player_index,
                single_die_round |-> single_die_round,
                num_dice_by_player_history |-> num_dice_by_player_history]
    /\ InitEnvelope
    /\ InitNetwork

\* game.start_new_round(first_player_index, single_die_round)
CallStartNewRound ==
    /\ pc = "start"
    /\ start_new_round(call.first_player_index, call.single_die_round, all_rounds_actions,
                       num_dice_by_player_history, all_rounds_losers)
    /\ UNCHANGED player_global_index

NextRound ==
    \/ CallStartNewRound

SpecRound == InitRound /\ [][NextRound]_vars

\* A game constructed with three players who hold one, two and three dice (a
\* PerudoGame takes any num_dice_by_player_history), followed through its
\* first round and the opening of its second.
InitUneven ==
    /\ num_players = 3
    /\ num_dice_by_player_history = <<[p \in 0..2 |-> p + 1]>>
    /\ cur_player_index = -1
    /\ cur_round_single_die = FALSE
    /\ all_rounds_actions = <<>>
    /\ all_rounds_dice_counts = <<>>
    /\ all_rounds_losers = <<>>
    /\ single_die_round_history = <<>>
    /\ player_dice_counts = [p \in 0..2 |-> DiceCounts_from_empty]
    /\ player_global_index = [p \in 0..2 |-> -1]
    /\ pc = "start"
    /\ main_loop_result = -1
    /\ call = [op |-> "none"]
    /\ InitEnvelope
    /\ InitNetwork

\* a pass of main_loop's while loop during the first round
TakeTurnFirstRound ==
    /\ all_rounds_losers = <<>>
    /\ TakeTurn

NextUneven ==
    \/ MainLoopStart
    \/ TakeTurnFirstRound

SpecUneven == InitUneven /\ [][NextUneven]_vars

----------------------------------------------------------------------------
(* The methods of actions.py called directly, as the tests call them: one    *)
(* call from the initial state, its arguments drawn from the sets below.     *)

\* bids with a face in range and a positive count
ValidBids == {Bid(face, count) : face \in Faces, count \in 1..MaxCount}

\* bids a caller may construct, the face or the count out of range included
AnyBids ==
    {Bid(face, count) :
        face \in (MIN_FACE_VAL - 1)..(MAX_FACE_VAL + 1), count \in -1..MaxCount}

\* previous actions: none, a bid, or an action that is no bid
PreviousActions ==
    {None} \cup ValidBids
    \cup {Challenge, Exact, NoOpDead, InvalidAction(None, "Error communicating")}

\* the aggregate dice of a round
AggregateDice ==
    {d \in [1..NUM_FACES -> 0..MaxAggDice] : DiceCounts_get_num_dice(d) <= MaxAggDice}

\* Bid.min_next_count(next_face); the guard states its two asserts
CallMinNextCount ==
    /\ call.op = "none"
    /\ \E self \in ValidBids, next_face \in Faces :
        /\ validate_face(next_face)
        /\ validate_face(self.face)
        /\ call' = [op |-> "Bid.min_next_count", self |-> self,
                    next_face |-> next_face,
                    ret |-> min_next_count(self, next_face)]
    /\ UNCHANGED <<game_vars, envelope_vars, network_vars>>

\* Bid.validate(previous_action, is_single_die_round)
CallBidValidate ==
    /\ call.op = "none"
    /\ \E self \in AnyBids, previous_action \in PreviousActions,
          is_single_die_round \in BOOLEAN :
        call' = [op |-> "Bid.validate", self |-> self,
                 previous_action |-> previous_action,
                 is_single_die_round |-> is_single_die_round,
                 ret |-> Bid_validate(self, previous_action, is_single_die_round)]
    /\ UNCHANGED <<game_vars, envelope_vars, network_vars>>

\* Challenge.validate and Exact.validate
CallEndActionValidate ==
    /\ call.op = "none"
    /\ \E self \in {Challenge, Exact}, previous_action \in PreviousActions,
          is_single_die_round \in BOOLEAN :
        call' = [op |-> "EndAction.validate", self |-> self,
                 previous_action |-> previous_action,
                 is_single_die_round |-> is_single_die_round,
                 ret |-> Challenge_validate(self, previous_action,
                                            is_single_die_round)]
    /\ UNCHANGED <<game_vars, envelope_vars, network_vars>>

\* Challenge.get_losers and Exact.get_losers; other_players are the players
\* that are not the caller, in index order
CallGetLosers ==
    /\ call.op = "none"
    /\ \E self \in {Challenge, Exact},
          previous_action \in ValidBids \cup {None, Challenge},
          all_dice_counts \in AggregateDice,
          is_single_die_round \in BOOLEAN,
          caller \in 0..(MaxPlayers - 1) :
        \E previous_player \in (0..(MaxPlayers - 1)) \ {caller} :
            LET other_players ==
                    other_living_players([p \in 0..(MaxPlayers - 1) |-> 1], caller)
            IN  call' = [op |-> "EndAction.get_losers", self |-> self,
                         previous_action |-> previous_action,
                         all_dice_counts |-> all_dice_counts,
                         is_single_die_round |-> is_single_die_round,
                         caller |-> caller,
                         previous_player |-> previous_player,
                         other_players |-> other_players,
                         ret |-> get_losers(self, previous_action,
                                    all_dice_counts, is_single_die_round,
                                    caller, previous_player, other_players)]
    /\ UNCHANGED <<game_vars, envelope_vars, network_vars>>

NextActions ==
    \/ CallMinNextCount
    \/ CallBidValidate
    \/ CallEndActionValidate
    \/ CallGetLosers

\* the direct calls are made beside one two-player game that has not started
InitActions ==
    /\ Init
    /\ num_players = 2
    /\ cur_num_dice = [p \in 0..1 |-> 1]

SpecActions == InitActions /\ [][NextActions]_vars

\* A round of bids: a first bid, then bids that validate accepts after the
\* bid before them, with counts up to MaxCount. The record of the call holds
\* the first bid, the last one and the number of bids made.
FirstBid ==
    /\ call.op = "none"
    /\ \E bid \in ValidBids :
        call' = [op |-> "Bid.validate", first |-> bid, self |-> bid, nth |-> 1]
    /\ UNCHANGED <<game_vars, envelope_vars, network_vars>>

\* bid.validate(previous_action, is_single_die_round) returns the bid
NextBid ==
    /\ call.op = "Bid.validate"
    /\ \E bid \in ValidBids, is_single_die_round \in BOOLEAN :
        /\ Bid_validate(bid, call.self, is_single_die_round) = bid
        /\ call' = [call EXCEPT !.self = bid, !.nth = @ + 1]
    /\ UNCHANGED <<game_vars, envelope_vars, network_vars>>

NextBids ==
    \/ FirstBid
    \/ NextBid

SpecBids == InitActions /\ [][NextBids]_vars

----------------------------------------------------------------------------
(* perudo/common.py: BaseFrozen and its serialisation.                      *)
(* A Python value is a record tagged with its type in the field py, a JSON  *)
(* text is the document it denotes, tagged in the field json, and an        *)
(* exception that leaves a call is a record with the field raise.           *)

PyNone == [py |-> "NoneType"]
PyBool(value) == [py |-> "bool", bool |-> value]
PyInt(value) == [py |-> "int", int |-> value]
PyStr(value) == [py |-> "str", str |-> value]
PyList(elements) == [py |-> "list", list |-> elements]
\* a dict and a Counter hold the set of their <<key, value>> items
PyDict(items) == [py |-> "dict", items |-> items]
PyCounter(items) == [py |-> "Counter", items |-> items]
\* an instance of a subclass of BaseFrozen: its class and its fields
PyObject(class_name, field_values) == [py |-> "BaseFrozen", class |-> class_name, fields |-> field_values]

Raise(exception) == [raise |-> exception]
Raised(value) == "raise" \in DOMAIN value
ConstructionError == Raise("ConstructionError")

JsonNull == [json |-> "null"]
JsonBool(value) == [json |-> "bool", bool |-> value]
JsonNumber(value) == [json |-> "number", number |-> value]
JsonString(value) == [json |-> "string", string |-> value]
JsonArray(elements) == [json |-> "array", array |-> elements]
\* an object holds the set of its <<name, value>> members
JsonObject(members) == [json |-> "object", members |-> members]
\* a text that is no JSON document
NotJson == [json |-> "malformed"]

TYPE_KEY == "TYPE"
DATA_KEY == "DATA"
MAGIC_KEY == "__MAGIC_BASE_FROZEN_KEY__"
MAGIC_VALUE == "__MAGIC_BASE_FROZEN_VALUE__"

\* type hints, by typing.get_origin and typing.get_args
ClassHint(class_name) == [origin |-> "None", class |-> class_name]
ListHint(arg) == [origin |-> "list", args |-> <<arg>>]
DictHint(key, value) == [origin |-> "dict", args |-> <<key, value>>]
CounterHint(key) == [origin |-> "Counter", args |-> <<key>>]
UnionHint(left, right) == [origin |-> "Union", args |-> <<left, right>>]

\* the classes that are the class or subclasses of it
Subclasses(class_name) ==
    CASE class_name = "Action" ->
            {"Action", "EndAction", "InvalidAction", "NoOp", "NoOpFirstTurnSkip",
             "NoOpDead", "Bid", "Challenge", "Exact"}
      [] class_name = "EndAction" -> {"EndAction", "InvalidAction", "Challenge", "Exact"}
      [] class_name = "NoOp" -> {"NoOp", "NoOpFirstTurnSkip", "NoOpDead"}
      [] OTHER -> {class_name}

\* BaseFrozen.SUBCLASS_REGISTRY once the modules are loaded
SUBCLASS_REGISTRY ==
    Subclasses("Action")
    \cup {"DiceCounts", "ActionObservation", "RoundSummary", "GameSummary", "Error",
          "FromServerHandshake", "ToServerHandshake", "Corrupted", "ActionRequest",
          "SetDice", "RoomsListResponse", "RequestRoomList", "JoinRoom", "CreateRoom"}

isinstance(obj, class_name) ==
    CASE class_name = "object" -> TRUE
      [] class_name = "int" -> obj.py \in {"int", "bool"}
      [] class_name = "dict" -> obj.py \in {"dict", "Counter"}
      [] class_name \in {"str", "bool", "NoneType", "list", "Counter"} -> obj.py = class_name
      [] OTHER -> obj.py = "BaseFrozen" /\ obj.class \in Subclasses(class_name)

RECURSIVE _is_instance_of_typehint(_, _)
_is_instance_of_typehint(obj, hint) ==
    CASE hint.origin = "None" -> isinstance(obj, hint.class)
      [] hint.origin = "list" ->
            /\ isinstance(obj, "list")
            /\ \A i \in DOMAIN obj.list : _is_instance_of_typehint(obj.list[i], hint.args[1])
      [] hint.origin = "dict" ->
            /\ isinstance(obj, "dict")
            /\ \A item \in obj.items :
                /\ _is_instance_of_typehint(item[1], hint.args[1])
                /\ _is_instance_of_typehint(item[2], hint.args[2])
      [] hint.origin = "Counter" ->
            /\ isinstance(obj, "Counter")
            /\ \A item \in obj.items : _is_instance_of_typehint(item[1], hint.args[1])
      [] hint.origin = "Union" ->
            \E i \in DOMAIN hint.args : _is_instance_of_typehint(obj, hint.args[i])

\* dataclasses.fields(cls): the type hint of each field of a class
fields(class_name) ==
    CASE class_name = "Bid" -> [face |-> ClassHint("int"), count |-> ClassHint("int")]
      [] class_name = "InvalidAction" ->
            [attempted_action |-> ClassHint("object"), reason |-> ClassHint("str")]
      [] class_name = "DiceCounts" -> [_counts |-> ListHint(ClassHint("int"))]
      [] class_name = "RoundSummary" ->
            [players |-> ListHint(ClassHint("str")),
             all_player_dice |-> ListHint(ClassHint("DiceCounts")),
             all_actions |-> ListHint(ClassHint("Action")),
             single_die_round |-> ClassHint("bool"),
             losers |-> ListHint(ClassHint("str"))]
      [] class_name = "Error" -> [contents |-> ClassHint("str")]
      [] class_name = "FromServerHandshake" -> [message |-> ClassHint("str")]
      [] class_name = "ToServerHandshake" -> [name |-> ClassHint("str")]
      [] class_name = "Corrupted" -> [contents |-> ClassHint("object")]
      [] class_name = "ActionRequest" ->
            [round_actions |-> ListHint(ClassHint("Action")),
             is_single_die_round |-> ClassHint("bool"),
             num_dice_in_play |-> ClassHint("int"),
             num_players_alive |-> ClassHint("int")]
      [] class_name = "SetDice" -> [dice |-> CounterHint(ClassHint("int"))]
      [] class_name = "RoomsListResponse" ->
            [room_to_members |-> DictHint(ClassHint("str"), ListHint(ClassHint("str")))]
      [] class_name = "JoinRoom" ->
            [room_name |-> UnionHint(ClassHint("str"), ClassHint("NoneType"))]
      [] class_name = "CreateRoom" ->
            [room_name |-> ClassHint("str"), num_network_players |-> ClassHint("int"),
             num_random_players |-> ClassHint("int"),
             num_probabilistic_players |-> ClassHint("int")]
      [] OTHER -> <<>>

\* cls(**kwargs): the dataclass constructor, then BaseFrozen.__post_init__
BaseFrozen_init(class_name, kwargs) ==
    IF DOMAIN kwargs # DOMAIN fields(class_name) THEN Raise("TypeError")
    ELSE IF \E field \in DOMAIN kwargs :
                ~_is_instance_of_typehint(kwargs[field], fields(class_name)[field])
    THEN ConstructionError
    ELSE PyObject(class_name, kwargs)

\* dict.get(key), None when the key is missing
dict_get(dict, key) ==
    IF \E item \in dict.items : item[1] = key
    THEN (CHOOSE item \in dict.items : item[1] = key)[2]
    ELSE PyNone

\* the first exception among values if one of them is an exception
FirstRaised(values) ==
    IF \E value \in values : Raised(value)
    THEN CHOOSE value \in values : Raised(value)
    ELSE PyNone

_naive_base_frozen_to_d(thing) ==
    PyDict({<<PyStr(TYPE_KEY), PyStr(thing.class)>>,
            <<PyStr(DATA_KEY),
              PyDict({<<PyStr(name), thing.fields[name]>> : name \in DOMAIN thing.fields})>>,
            <<PyStr(MAGIC_KEY), PyStr(MAGIC_VALUE)>>})

RECURSIVE _to_jsonable_hopefully(_)
_to_jsonable_hopefully(thing) ==
    CASE isinstance(thing, "list") ->
            LET elements == [i \in DOMAIN thing.list |-> _to_jsonable_hopefully(thing.list[i])]
            IN  IF Raised(FirstRaised(Range(elements)))
                THEN FirstRaised(Range(elements))
                ELSE PyList(elements)
      [] thing.py = "BaseFrozen" -> _to_jsonable_hopefully(_naive_base_frozen_to_d(thing))
      [] isinstance(thing, "dict") ->
            LET items == {<<_to_jsonable_hopefully(item[1]), _to_jsonable_hopefully(item[2])>> :
                            item \in thing.items}
                parts == {item[1] : item \in items} \cup {item[2] : item \in items}
            IN  IF Raised(FirstRaised(parts)) THEN FirstRaised(parts) ELSE PyDict(items)
      [] thing.py \in {"str", "int", "bool", "NoneType"} -> thing
      [] OTHER -> ConstructionError

\* the name json.dumps writes for a dict key
json_key(key) ==
    CASE key.py = "str" -> key.str
      [] key.py = "int" -> ToString(key.int)
      [] key.py = "bool" -> IF key.bool THEN "true" ELSE "false"
      [] key.py = "NoneType" -> "null"

RECURSIVE json_dumps(_)
json_dumps(obj) ==
    CASE obj.py = "NoneType" -> JsonNull
      [] obj.py = "bool" -> JsonBool(obj.bool)
      [] obj.py = "int" -> JsonNumber(obj.int)
      [] obj.py = "str" -> JsonString(obj.str)
      [] obj.py = "list" -> JsonArray([i \in DOMAIN obj.list |-> json_dumps(obj.list[i])])
      [] obj.py \in {"dict", "Counter"} ->
            JsonObject({<<json_key(item[1]), json_dumps(item[2])>> : item \in obj.items})

RECURSIVE json_loads(_)
json_loads(text) ==
    CASE text.json = "null" -> PyNone
      [] text.json = "bool" -> PyBool(text.bool)
      [] text.json = "number" -> PyInt(text.number)
      [] text.json = "string" -> PyStr(text.string)
      [] text.json = "array" -> PyList([i \in DOMAIN text.array |-> json_loads(text.array[i])])
      [] text.json = "object" ->
            PyDict({<<PyStr(member[1]), json_loads(member[2])>> : member \in text.members})
      [] OTHER -> Raise("JSONDecodeError")

\* the value data_from_data_dict checks and keeps for a field: a dict becomes
\* a Counter only when the hint is the bare class collections.Counter
as_field_value(value, hint) ==
    IF hint = ClassHint("Counter") /\ isinstance(value, "dict")
    THEN PyCounter(value.items)
    ELSE value

\* whether data_from_data_dict adds an error for an item of input_d
field_error(class_name, item) ==
    \/ item[1].py # "str"
    \/ item[1].str \notin DOMAIN fields(class_name)
    \/ ~_is_instance_of_typehint(
            as_field_value(item[2], fields(class_name)[item[1].str]),
            fields(class_name)[item[1].str])

data_from_data_dict(class_name, input_d) ==
    IF Raised(input_d) \/ ~isinstance(input_d, "dict") THEN ConstructionError
    ELSE IF \E item \in input_d.items : field_error(class_name, item) THEN ConstructionError
    ELSE LET kwargs ==
                [name \in {item[1].str : item \in input_d.items} |->
                    as_field_value(dict_get(input_d, PyStr(name)), fields(class_name)[name])]
         IN  IF Raised(BaseFrozen_init(class_name, kwargs))
             THEN ConstructionError
             ELSE BaseFrozen_init(class_name, kwargs)

RECURSIVE _from_jsonable(_)
_from_jsonable(thing) ==
    CASE isinstance(thing, "list") ->
            LET elements == [i \in DOMAIN thing.list |-> _from_jsonable(thing.list[i])]
            IN  IF Raised(FirstRaised(Range(elements)))
                THEN FirstRaised(Range(elements))
                ELSE PyList(elements)
      [] isinstance(thing, "dict") ->
            IF dict_get(thing, PyStr(MAGIC_KEY)) = PyStr(MAGIC_VALUE)
            THEN LET type_key == dict_get(thing, PyStr(TYPE_KEY))
                 IN  IF type_key.py # "str" \/ type_key.str \notin SUBCLASS_REGISTRY
                     THEN ConstructionError
                     ELSE IF dict_get(thing, PyStr(DATA_KEY)) = PyNone
                     THEN Raise("KeyError")
                     ELSE data_from_data_dict(type_key.str,
                            _from_jsonable(dict_get(thing, PyStr(DATA_KEY))))
            ELSE LET items == {<<_from_jsonable(item[1]), _from_jsonable(item[2])>> :
                                item \in thing.items}
                     parts == {item[1] : item \in items} \cup {item[2] : item \in items}
                 IN  IF Raised(FirstRaised(parts)) THEN FirstRaised(parts) ELSE PyDict(items)
      [] thing.py \in {"str", "int", "bool", "NoneType"} -> thing
      [] OTHER -> ConstructionError

\* cls.from_dict(input_d) of the subclass of BaseFrozen named class_name
from_dict(class_name, input_d) ==
    IF ~isinstance(input_d, "dict") THEN Raise("AttributeError")
    ELSE IF dict_get(input_d, PyStr(MAGIC_KEY)) # PyStr(MAGIC_VALUE) THEN ConstructionError
    ELSE IF dict_get(input_d, PyStr(TYPE_KEY)).py # "str"
            \/ dict_get(input_d, PyStr(TYPE_KEY)).str \notin SUBCLASS_REGISTRY
    THEN Raise("KeyError")
    ELSE LET tentative == _from_jsonable(input_d)
         IN  IF Raised(tentative) THEN tentative
             ELSE IF ~isinstance(tentative, dict_get(input_d, PyStr(TYPE_KEY)).str)
             THEN ConstructionError
             ELSE IF tentative.class # class_name THEN ConstructionError
             ELSE tentative

\* cls.from_dict(input_d), input_d being what json.loads returned or raised
from_loaded(class_name, input_d) ==
    IF Raised(input_d) THEN input_d ELSE from_dict(class_name, input_d)

\* except Exception as exc: raise ConstructionError(...) from exc
except_ConstructionError(result) ==
    IF Raised(result) THEN ConstructionError ELSE result

\* json.dumps(jsonable), jsonable being what to_dict returned or raised
dumps_unless_raised(jsonable) ==
    IF Raised(jsonable) THEN jsonable ELSE json_dumps(jsonable)

\* cls.from_json(json_str): whatever from_dict or json.loads raises becomes a
\* ConstructionError
from_json(class_name, json_str) ==
    except_ConstructionError(from_loaded(class_name, json_loads(json_str)))

to_dict(self) == _to_jsonable_hopefully(self)

to_json(self) == dumps_unless_raised(to_dict(self))

----------------------------------------------------------------------------
(* perudo/network_stuff/messaging.py: WrappedMessage.                       *)
(* A byte string (a salt, a raw public key) is an atom; a signature is the  *)
(* pair of the key that signed and the bytes it signed, so that only        *)
(* private_key.sign makes one that public_key.verify accepts.               *)

VERSION == "0.1"

\* the names register_type has put into TYPE_NAME_TO_TYPE_D
TYPE_NAME_TO_TYPE_D ==
    {"Error", "Bid", "Challenge", "Exact", "RoundSummary", "FromServerHandshake",
     "ToServerHandshake", "NoOp", "Corrupted", "ActionRequest", "SetDice",
     "RoomsListResponse", "RequestRoomList", "JoinRoom", "CreateRoom"}

PrivateKeys == {"private_1", "private_2"}

\* private_key.public_key(), as its raw bytes
public_key_of(private_key) ==
    IF private_key = "private_1" THEN "public_1" ELSE "public_2"

PublicKeys == {public_key_of(private_key) : private_key \in PrivateKeys}

\* binascii.hexlify(data).decode() and bytes.hex(): lower-case digits
hexlify(data) == [hex |-> data, upper |-> FALSE]

\* whether a text is a string of hex digits
is_hex(text) == "hex" \in DOMAIN text

\* binascii.unhexlify(text) of a string of hex digits, of either case;
\* of another text it raises binascii.Error
unhexlify(text) == text.hex

\* what is no string of hex digits
NotHex == [text |-> "zz"]

_get_thing_to_sign(public_key, type_name, data_bytes, salt) ==
    <<salt, public_key, type_name, data_bytes>>

\* private_key.sign(to_sign)
sign(private_key, to_sign) ==
    [signer |-> public_key_of(private_key), signed |-> to_sign]

\* seeded fault: a verify that accepts whatever the key has signed
verify_any_message(public_key, signature, message) ==
    /\ "signer" \in DOMAIN signature
    /\ signature.signer = public_key

\* public_key.verify(signature, message) does not raise InvalidSignature
verify(public_key, signature, message) ==
    /\ "signer" \in DOMAIN signature
    /\ signature.signer = public_key
    /\ signature.signed = message

\* defaultdict.__getitem__: a missing key is inserted with an empty set
defaultdict_getitem(received_salts, key) ==
    IF key \in DOMAIN received_salts THEN received_salts
    ELSE received_salts @@ (key :> {})

\* seeded fault: from_bytes returning without recording the salt
add_received_salt_forgets(received_salts, public_key_bytes, salt) ==
    received_salts

\* cls.RECEIVED_SALTS[public_key_bytes].add(salt)
add_received_salt(received_salts, public_key_bytes, salt) ==
    [defaultdict_getitem(received_salts, public_key_bytes)
        EXCEPT ![public_key_bytes] = @ \cup {salt}]

\* an instance of WrappedMessage
WrappedMessage(salt, public_key, type_name, data, signature) ==
    [salt |-> salt, public_key |-> public_key, type_name |-> type_name,
     data |-> data, signature |-> signature, version |-> VERSION]

\* what a call of from_bytes leaves: what it returns or raises (with the
\* exception it was raised from), RECEIVED_SALTS after the call, and whether
\* DataType.from_json was called
Outcome(ret, received_salts, decoded) ==
    [ret |-> ret, received_salts |-> received_salts, decoded |-> decoded]

\* raise ConstructionError(...) from exc
ConstructionErrorFrom(exc) == [raise |-> "ConstructionError", cause |-> exc]

\* an exception of the class named, and the KeyError of a failed lookup of key
Exception(class_name) == [class |-> class_name]
KeyError(key) == [class |-> "KeyError", key |-> key]

\* the end of from_bytes, data being what DataType.from_json returned or raised
decoded(json_str, public_key_bytes, salt, looked_up, data) ==
    IF Raised(data)
    THEN Outcome(ConstructionErrorFrom(Exception("ConstructionError")), looked_up, TRUE)
    ELSE Outcome(
            WrappedMessage(salt, public_key_bytes, json_str.type, data,
                           unhexlify(json_str.signature)),
            add_received_salt(looked_up, public_key_bytes, salt), TRUE)

\* from_bytes(json_str) when RECEIVED_SALTS is received_salts
from_bytes(json_str, received_salts) ==
    IF json_str = NotJson
    THEN Outcome(ConstructionErrorFrom(Exception("JSONDecodeError")), received_salts, FALSE)
    ELSE IF "public_key" \notin DOMAIN json_str
    THEN Outcome(ConstructionErrorFrom(KeyError("public_key")), received_salts, FALSE)
    ELSE IF ~is_hex(json_str.public_key)
    THEN Outcome(ConstructionErrorFrom(Exception("binascii.Error")), received_salts, FALSE)
    ELSE IF "salt" \notin DOMAIN json_str
    THEN Outcome(ConstructionErrorFrom(KeyError("salt")), received_salts, FALSE)
    ELSE IF ~is_hex(json_str.salt)
    THEN Outcome(ConstructionErrorFrom(Exception("binascii.Error")), received_salts, FALSE)
    ELSE
    LET public_key_bytes == unhexlify(json_str.public_key)
        salt == unhexlify(json_str.salt)
        looked_up == defaultdict_getitem(received_salts, public_key_bytes)
    IN
    IF salt \in looked_up[public_key_bytes]
    THEN Outcome(ConstructionErrorFrom(Exception("ConstructionError")), looked_up, FALSE)
    ELSE IF public_key_bytes \notin PublicKeys
    THEN Outcome(ConstructionErrorFrom(Exception("ValueError")), looked_up, FALSE)
    ELSE IF "signature" \notin DOMAIN json_str
    THEN Outcome(ConstructionErrorFrom(KeyError("signature")), looked_up, FALSE)
    ELSE IF ~is_hex(json_str.signature)
    THEN Outcome(ConstructionErrorFrom(Exception("binascii.Error")), looked_up, FALSE)
    ELSE IF "type" \notin DOMAIN json_str
    THEN Outcome(ConstructionErrorFrom(KeyError("type")), looked_up, FALSE)
    ELSE IF json_str.type \notin TYPE_NAME_TO_TYPE_D
    THEN Outcome(ConstructionErrorFrom(KeyError(json_str.type)), looked_up, FALSE)
    ELSE IF "data" \notin DOMAIN json_str
    THEN Outcome(ConstructionErrorFrom(KeyError("data")), looked_up, FALSE)
    ELSE IF "version" \notin DOMAIN json_str
    THEN Outcome(ConstructionErrorFrom(KeyError("version")), looked_up, FALSE)
    ELSE IF json_str.version # VERSION
    THEN Outcome(ConstructionErrorFrom(Exception("AssertionError")), looked_up, FALSE)
    ELSE IF ~verify(public_key_bytes, unhexlify(json_str.signature),
                _get_thing_to_sign(public_key_bytes, json_str.type, json_str.data, salt))
    THEN Outcome(ConstructionErrorFrom(Exception("InvalidSignature")), looked_up, FALSE)
    ELSE decoded(json_str, public_key_bytes, salt, looked_up,
                 from_json(json_str.type, json_str.data))

\* self.to_bytes(): the JSON text of the dict of the six entries
to_bytes(self) ==
    [salt |-> hexlify(self.salt), public_key |-> hexlify(self.public_key),
     type |-> self.type_name, data |-> to_json(self.data),
     signature |-> hexlify(self.signature), version |-> self.version]

\* the end of from_data, data_json being what data.to_json() returned or raised
signed(data, private_key, salt, data_json) ==
    IF Raised(data_json) THEN data_json
    ELSE WrappedMessage(salt, public_key_of(private_key), data.class, data,
            sign(private_key,
                _get_thing_to_sign(public_key_of(private_key), data.class, data_json, salt)))

\* from_data(data, private_key) when secrets.token_bytes has returned salt in
\* the pass of the while loop that ended it
from_data(data, private_key, salt) ==
    IF data.class \notin TYPE_NAME_TO_TYPE_D THEN ConstructionError
    ELSE signed(data, private_key, salt, to_json(data))

----------------------------------------------------------------------------
(* One process that builds envelopes with from_data and parses what reaches *)
(* it with from_bytes: the envelopes built so far as to_bytes writes them,  *)
(* and those with one entry altered, dropped, or the whole text garbled.    *)

\* the values secrets.token_bytes may return
Salts == 1..MaxSalt

\* the records handed to from_data: two of registered types, one of a type
\* that is not registered
EnvelopeData ==
    {PyObject("Bid", [face |-> PyInt(2), count |-> PyInt(1)]),
     PyObject("Challenge", <<>>),
     PyObject("NoOpDead", <<>>)}

\* a text with its hex digits in upper case
upper_case(text) == [hex |-> text.hex, upper |-> TRUE]

\* what may reach from_bytes in place of json_str
Altered(json_str) ==
    {json_str, NotJson}
    \cup {[json_str EXCEPT !.salt = hexlify(salt)] : salt \in Salts}
    \cup {[json_str EXCEPT !.salt = upper_case(@), !.public_key = upper_case(@)]}
    \cup {[json_str EXCEPT !.public_key = hexlify(public_key)] : public_key \in PublicKeys}
    \cup {[json_str EXCEPT !.type = type_name] : type_name \in {"Exact", "Unregistered", "version"}}
    \cup {[json_str EXCEPT !.data = to_json(data)] :
            data \in {d \in EnvelopeData : d.class \in TYPE_NAME_TO_TYPE_D}}
    \cup {[json_str EXCEPT !.version = "0.2"]}
    \cup {[name \in DOMAIN json_str \ {dropped} |-> json_str[name]] :
            dropped \in {"type", "version"}}

\* the envelopes from_data has returned
SentEnvelopes == {sent[i] : i \in {k \in DOMAIN sent : ~Raised(sent[k])}}

FromData ==
    /\ Len(sent) < MaxSent
    /\ \E data \in EnvelopeData, private_key \in PrivateKeys, salt \in Salts \ SENT_SALTS :
        sent' = Append(sent, from_data(data, private_key, salt))
    /\ UNCHANGED <<game_vars, call, RECEIVED_SALTS, SENT_SALTS, received, network_vars>>

\* the entry of received for a call of from_bytes
ReceivedEntry(json_str, outcome) ==
    [json_str |-> json_str, ret |-> outcome.ret, decoded |-> outcome.decoded]

FromBytes ==
    /\ Len(received) < MaxReceived
    /\ \E message \in SentEnvelopes :
        \E json_str \in Altered(to_bytes(message)) :
            /\ received' = Append(received,
                    ReceivedEntry(json_str, from_bytes(json_str, RECEIVED_SALTS)))
            /\ RECEIVED_SALTS' = from_bytes(json_str, RECEIVED_SALTS).received_salts
    /\ UNCHANGED <<game_vars, call, SENT_SALTS, sent, network_vars>>

NextEnvelope ==
    \/ FromData
    \/ FromBytes

SpecEnvelope == InitActions /\ [][NextEnvelope]_vars

----------------------------------------------------------------------------
(* One record sent through an envelope: from_data, to_bytes, from_bytes.    *)

Strings == {"", "a"}

BidRecords ==
    {PyObject("Bid", [face |-> PyInt(face), count |-> PyInt(count)]) :
        face \in MIN_FACE_VAL..MaxBidFace, count \in 0..MaxCount}

\* a DiceCounts holding no dice
EmptyDiceCounts == PyObject("DiceCounts", [_counts |-> PyList([i \in 1..NUM_FACES |-> PyInt(0)])])

\* values of the registered record types
Records ==
    BidRecords
    \cup {PyObject(class_name, <<>>) :
            class_name \in {"Challenge", "Exact", "NoOp", "RequestRoomList"}}
    \cup {PyObject("Error", [contents |-> PyStr(s)]) : s \in Strings}
    \cup {PyObject("FromServerHandshake", [message |-> PyStr(s)]) : s \in Strings}
    \cup {PyObject("ToServerHandshake", [name |-> PyStr(s)]) : s \in Strings}
    \cup {PyObject("JoinRoom", [room_name |-> name]) :
            name \in {PyNone} \cup {PyStr(s) : s \in Strings}}
    \cup {PyObject("CreateRoom",
                [room_name |-> PyStr("a"), num_network_players |-> PyInt(n),
                 num_random_players |-> PyInt(0), num_probabilistic_players |-> PyInt(0)]) :
            n \in 1..MaxPlayers}
    \cup {PyObject("RoomsListResponse", [room_to_members |-> PyDict(items)]) :
            items \in {{}, {<<PyStr("a"), PyList(<<PyStr("a")>>)>>}}}
    \cup {PyObject("ActionRequest",
                [round_actions |-> PyList(actions), is_single_die_round |-> PyBool(single),
                 num_dice_in_play |-> PyInt(2), num_players_alive |-> PyInt(2)]) :
            actions \in {<<>>, <<PyObject("NoOpFirstTurnSkip", <<>>),
                                 PyObject("Bid", [face |-> PyInt(2), count |-> PyInt(1)])>>},
            single \in BOOLEAN}
    \cup {PyObject("RoundSummary",
                [players |-> PyList(<<PyStr("a"), PyStr("")>>),
                 all_player_dice |-> PyList(<<EmptyDiceCounts, EmptyDiceCounts>>),
                 all_actions |-> PyList(<<PyObject("Bid", [face |-> PyInt(2), count |-> PyInt(1)]),
                                          PyObject("Challenge", <<>>)>>),
                 single_die_round |-> PyBool(FALSE),
                 losers |-> PyList(<<PyStr("a")>>)])}
    \cup {PyObject("Corrupted", [contents |-> contents]) :
            contents \in {PyNone, PyStr("a"), PyObject("Challenge", <<>>),
                          PyDict({<<PyInt(1), PyStr("a")>>})}}
    \cup {PyObject("SetDice", [dice |-> PyCounter(items)]) :
            items \in {{}} \cup {{<<PyInt(face), PyInt(1)>>} : face \in MIN_FACE_VAL..MaxRollFace}}

SendRecord ==
    /\ sent = <<>>
    /\ \E data \in Records, private_key \in PrivateKeys, salt \in Salts \ SENT_SALTS :
        sent' = Append(sent, from_data(data, private_key, salt))
    /\ UNCHANGED <<game_vars, call, RECEIVED_SALTS, SENT_SALTS, received, network_vars>>

ReceiveRecord ==
    /\ received = <<>>
    /\ \E message \in SentEnvelopes :
        /\ received' = Append(received,
                ReceivedEntry(to_bytes(message), from_bytes(to_bytes(message), RECEIVED_SALTS)))
        /\ RECEIVED_SALTS' = from_bytes(to_bytes(message), RECEIVED_SALTS).received_salts
    /\ UNCHANGED <<game_vars, call, SENT_SALTS, sent, network_vars>>

NextRoundTrip ==
    \/ SendRecord
    \/ ReceiveRecord

SpecRoundTrip == InitActions /\ [][NextRoundTrip]_vars

----------------------------------------------------------------------------
(* perudo/network_stuff/network_common.py: the framed transport.           *)
(*                                                                         *)
(* A bytes object is its text and its length; a StreamWriter is whether it *)
(* is closing and the frames written to it; what a StreamReader yields is  *)
(* an input of the call that reads it.                                     *)

LEN_PREFIX_LEN == 4
MAX_MESSAGE_LEN == 10000000

\* struct.pack('!I', n): four bytes, the most significant first
pack(n) == <<n \div 16777216, (n \div 65536) % 256, (n \div 256) % 256, n % 256>>

\* struct.unpack('!I', len_bytes)[0]
unpack(len_bytes) ==
    ((len_bytes[1] * 256 + len_bytes[2]) * 256 + len_bytes[3]) * 256 + len_bytes[4]

\* a bytes object: its text, and len() of it
Bytes(text, length) == [text |-> text, len |-> length]

\* a StreamWriter that nothing was written to
Writer == [closing |-> FALSE, written |-> <<>>]

\* writer.close()
close(writer) == [writer EXCEPT !.closing = TRUE]

\* seeded fault: _send_wrapped_message without the check of the length
_send_wrapped_message_no_limit(wrapped, writer, drained) ==
    IF writer.closing THEN writer
    ELSE IF drained # "ok"
    THEN close([writer EXCEPT !.written = Append(@, <<pack(wrapped.len), wrapped>>)])
    ELSE [writer EXCEPT !.written = Append(@, <<pack(wrapped.len), wrapped>>)]

\* _send_wrapped_message(message, writer) when message.to_bytes() is wrapped
\* and writer.drain() ends as drained ("ok", "TimeoutError",
\* "ConnectionResetError"): the writer after the call. Nothing reaches the
\* peer through a writer that is closing.
_send_wrapped_message(wrapped, writer, drained) ==
    IF wrapped.len > MAX_MESSAGE_LEN THEN close(writer)
    ELSE IF writer.closing THEN writer
    ELSE IF drained # "ok"
    THEN close([writer EXCEPT !.written = Append(@, <<pack(wrapped.len), wrapped>>)])
    ELSE [writer EXCEPT !.written = Append(@, <<pack(wrapped.len), wrapped>>)]

\* what a reader yields to one call of _receive_wrapped_message before the
\* stream ends: nothing, the four bytes of a prefix, or a prefix and the
\* body it announces
Incoming(yields, len_bytes, wrapped) ==
    [yields |-> yields, len_bytes |-> len_bytes, wrapped |-> wrapped]

\* what _receive_wrapped_message leaves: what it returns or raises,
\* RECEIVED_SALTS after the call, and whether the body was read
Received(ret, received_salts, body_read) ==
    [ret |-> ret, received_salts |-> received_salts, body_read |-> body_read]

\* return messaging.WrappedMessage.from_bytes(wrapped)
unwrapped(outcome) == Received(outcome.ret, outcome.received_salts, TRUE)

\* _receive_wrapped_message(reader) when the reader yields incoming
_receive_wrapped_message(incoming, received_salts) ==
    IF incoming.yields = "nothing"
    THEN Received(Raise("IncompleteReadError"), received_salts, FALSE)
    ELSE IF unpack(incoming.len_bytes) > MAX_MESSAGE_LEN
    THEN Received(ConstructionError, received_salts, FALSE)
    ELSE IF incoming.yields = "prefix"
    THEN Received(Raise("IncompleteReadError"), received_salts, TRUE)
    ELSE unwrapped(from_bytes(incoming.wrapped.text, received_salts))

\* an instance of Connection; its reader is an input of the calls that read
Connection(name, writer, target_public_key, self_private_key) ==
    [name |-> name, _writer |-> writer, _target_public_key |-> target_public_key,
     _self_private_key |-> self_private_key]

\* what a method of Connection leaves: what it returns or raises, the
\* connection's writer and RECEIVED_SALTS after the call, and whether a
\* body was read
Left(ret, writer, received_salts, body_read) ==
    [ret |-> ret, _writer |-> writer, received_salts |-> received_salts,
     body_read |-> body_read]

\* the end of from_handshake_server_side: writer is the writer once the
\* greeting is sent, got what _receive_wrapped_message has left
server_side_greeted(self_private_key, writer, got) ==
    IF Raised(got.ret) THEN Left(got.ret, writer, got.received_salts, got.body_read)
    ELSE IF got.ret.data.class # "ToServerHandshake"
    THEN Left(ConstructionError, writer, got.received_salts, got.body_read)
    ELSE Left(Connection(got.ret.data.fields.name.str, writer, got.ret.public_key,
                         self_private_key),
              writer, got.received_salts, got.body_read)

\* Connection.from_handshake_server_side when from_data draws salt, the
\* greeting is wrapped_len bytes long and the reader yields incoming: ret is
\* the Connection or what is raised
from_handshake_server_side(self_private_key, salt, wrapped_len, drained, incoming, received_salts) ==
    server_side_greeted(self_private_key,
        _send_wrapped_message(
            Bytes(to_bytes(from_data(PyObject("FromServerHandshake",
                                              [message |-> PyStr("Who dis?")]),
                                     self_private_key, salt)),
                  wrapped_len),
            Writer, drained),
        _receive_wrapped_message(incoming, received_salts))

\* the end of from_handshake_client_side: got is what
\* _receive_wrapped_message has left, writer the writer once the answer is
\* sent, which it is when a greeting was received
client_side_greeted(self_private_key, name, got, writer) ==
    IF Raised(got.ret) THEN Left(got.ret, Writer, got.received_salts, got.body_read)
    ELSE IF got.ret.data.class # "FromServerHandshake"
    THEN Left(ConstructionError, Writer, got.received_salts, got.body_read)
    ELSE Left(Connection(name, writer, got.ret.public_key, self_private_key),
              writer, got.received_salts, got.body_read)

\* Connection.from_handshake_client_side
from_handshake_client_side(self_private_key, name, salt, wrapped_len, drained, incoming, received_salts) ==
    client_side_greeted(self_private_key, name,
        _receive_wrapped_message(incoming, received_salts),
        _send_wrapped_message(
            Bytes(to_bytes(from_data(PyObject("ToServerHandshake", [name |-> PyStr(name)]),
                                     self_private_key, salt)),
                  wrapped_len),
            Writer, drained))

\* the end of send_obj, message being what from_data returned or raised
sent_wrapped(self, message, wrapped_len, drained) ==
    IF Raised(message) THEN Left(message, self._writer, <<>>, FALSE)
    ELSE Left(PyNone,
              _send_wrapped_message(Bytes(to_bytes(message), wrapped_len),
                                    self._writer, drained),
              <<>>, FALSE)

\* self.send_obj(obj): from_data raises outside the try of
\* _send_wrapped_message
send_obj(self, obj, salt, wrapped_len, drained) ==
    sent_wrapped(self, from_data(obj, self._self_private_key, salt), wrapped_len, drained)

\* the Corrupted record receive_obj returns
CorruptedRecord(error_message) == PyObject("Corrupted", [contents |-> PyStr(error_message)])

\* seeded fault: receive_obj without the comparison of the keys
receive_obj_any_key(self, incoming, received_salts) ==
    LET got == _receive_wrapped_message(incoming, received_salts)
    IN  IF Raised(got.ret)
        THEN Left(CorruptedRecord("Receive failed"), close(self._writer),
                  got.received_salts, got.body_read)
        ELSE Left(got.ret.data, self._writer, got.received_salts, got.body_read)

\* seeded fault: receive_obj catching ConstructionError alone
receive_obj_except_ConstructionError(self, incoming, received_salts) ==
    LET got == _receive_wrapped_message(incoming, received_salts)
    IN  IF Raised(got.ret) /\ got.ret.raise # "ConstructionError"
        THEN Left(got.ret, self._writer, got.received_salts, got.body_read)
        ELSE IF Raised(got.ret)
        THEN Left(CorruptedRecord("Receive failed"), close(self._writer),
                  got.received_salts, got.body_read)
        ELSE IF got.ret.public_key # self._target_public_key
        THEN Left(CorruptedRecord("Public key mismatch"), close(self._writer),
                  got.received_salts, got.body_read)
        ELSE Left(got.ret.data, self._writer, got.received_salts, got.body_read)

\* the end of receive_obj, got being what _receive_wrapped_message has left
obj_of(self, got) ==
    IF Raised(got.ret)
    THEN Left(CorruptedRecord("Receive failed"), close(self._writer),
              got.received_salts, got.body_read)
    ELSE IF got.ret.public_key # self._target_public_key
    THEN Left(CorruptedRecord("Public key mismatch"), close(self._writer),
              got.received_salts, got.body_read)
    ELSE Left(got.ret.data, self._writer, got.received_salts, got.body_read)

\* self.receive_obj() when the reader yields incoming
receive_obj(self, incoming, received_salts) ==
    obj_of(self, _receive_wrapped_message(incoming, received_salts))

\* self.ping(): messaging has no attribute NoOpMessage, so the argument of
\* send_obj raises AttributeError before anything is sent
ping(self) == Raise("AttributeError")

\* self.is_closing()
is_closing(self) == self._writer.closing

----------------------------------------------------------------------------
(* One process and its connections: handshakes, then objects sent and      *)
(* received while the peer, or whoever writes to the stream, sends what it *)
(* likes.                                                                  *)

\* lengths of the bytes objects sent and announced
FrameLens == {MAX_MESSAGE_LEN - 1, MAX_MESSAGE_LEN, MAX_MESSAGE_LEN + 1}

\* how writer.drain() ends
Drains == {"ok", "TimeoutError"}

\* what the peers build envelopes of
PeerData ==
    {PyObject("FromServerHandshake", [message |-> PyStr("Who dis?")]),
     PyObject("ToServerHandshake", [name |-> PyStr("a")]),
     PyObject("Bid", [face |-> PyInt(2), count |-> PyInt(1)])}

\* the envelopes of the peers as to_bytes writes them
IntactTexts ==
    {to_bytes(from_data(data, private_key, salt)) :
        data \in PeerData, private_key \in PrivateKeys, salt \in Salts}

\* one of them, for the reader to yield altered or with another length
OneText ==
    to_bytes(from_data(PyObject("Bid", [face |-> PyInt(2), count |-> PyInt(1)]), "private_2", 1))

\* what a reader may yield
Incomings ==
    {Incoming("nothing", <<>>, Bytes(NotJson, 0))}
    \cup {Incoming("prefix", pack(length), Bytes(NotJson, 0)) : length \in FrameLens}
    \cup {Incoming("frame", pack(MAX_MESSAGE_LEN), Bytes(text, MAX_MESSAGE_LEN)) :
            text \in IntactTexts \cup Altered(OneText)}
    \cup {Incoming("frame", pack(length), Bytes(OneText, length)) : length \in FrameLens}

\* what this process sends: records of a registered type and of one that is
\* not registered
SendData ==
    {PyObject("Bid", [face |-> PyInt(2), count |-> PyInt(1)]),
     PyObject("NoOpDead", <<>>)}

\* the entry of net_call for the nth call on a connection (self: the
\* connection before the call; RECEIVED_SALTS: the class attribute before it)
ConnectionCall(op, self, args, left) ==
    [op |-> op, nth |-> net_call.nth + 1, self |-> self, args |-> args,
     received_salts |-> RECEIVED_SALTS, ret |-> left.ret, _writer |-> left._writer, body_read |-> left.body_read]

HandshakeServerSide ==
    /\ connections = <<>>
    /\ net_call.nth = 0
    /\ \E salt \in Salts, wrapped_len \in FrameLens, drained \in Drains, incoming \in Incomings :
        \E left \in {from_handshake_server_side("private_1", salt, wrapped_len, drained,
                                               incoming, RECEIVED_SALTS)} :
            /\ connections' = IF Raised(left.ret) THEN connections
                               ELSE (left.ret.name :> left.ret)
            /\ RECEIVED_SALTS' = left.received_salts
            /\ net_call' = ConnectionCall("from_handshake_server_side", Writer, incoming, left)
    /\ UNCHANGED <<game_vars, call, SENT_SALTS, sent, received, rooms, tasks>>

HandshakeClientSide ==
    /\ connections = <<>>
    /\ net_call.nth = 0
    /\ \E salt \in Salts, wrapped_len \in FrameLens, drained \in Drains, incoming \in Incomings :
        \E left \in {from_handshake_client_side("private_1", "b", salt, wrapped_len, drained,
                                               incoming, RECEIVED_SALTS)} :
            /\ connections' = IF Raised(left.ret) THEN connections
                               ELSE (left.ret.name :> left.ret)
            /\ RECEIVED_SALTS' = left.received_salts
            /\ net_call' = ConnectionCall("from_handshake_client_side", Writer, incoming, left)
    /\ UNCHANGED <<game_vars, call, SENT_SALTS, sent, received, rooms, tasks>>

ReceiveObj ==
    /\ net_call.nth < MaxNetCalls
    /\ \E name \in DOMAIN connections, incoming \in Incomings :
        \E left \in {receive_obj(connections[name], incoming, RECEIVED_SALTS)} :
            /\ connections' = [connections EXCEPT ![name]._writer = left._writer]
            /\ RECEIVED_SALTS' = left.received_salts
            /\ net_call' = ConnectionCall("receive_obj", connections[name], incoming, left)
    /\ UNCHANGED <<game_vars, call, SENT_SALTS, sent, received, rooms, tasks>>

SendObj ==
    /\ net_call.nth < MaxNetCalls
    /\ \E name \in DOMAIN connections, obj \in SendData, salt \in Salts,
          wrapped_len \in FrameLens, drained \in Drains :
        \E left \in {send_obj(connections[name], obj, salt, wrapped_len, drained)} :
            /\ connections' = [connections EXCEPT ![name]._writer = left._writer]
            /\ net_call' = ConnectionCall("send_obj", connections[name],
                                [obj |-> obj, wrapped_len |-> wrapped_len, drained |-> drained],
                                left)
    /\ UNCHANGED <<game_vars, call, envelope_vars, rooms, tasks>>

Close ==
    /\ net_call.nth < MaxNetCalls
    /\ \E name \in DOMAIN connections :
        /\ ~is_closing(connections[name])
        /\ connections' = [connections EXCEPT ![name]._writer = close(@)]
        /\ net_call' = [op |-> "close", nth |-> net_call.nth + 1, self |-> connections[name]]
    /\ UNCHANGED <<game_vars, call, envelope_vars, rooms, tasks>>

NextConnection ==
    \/ HandshakeServerSide
    \/ HandshakeClientSide
    \/ ReceiveObj
    \/ SendObj
    \/ Close

SpecConnection == InitActions /\ [][NextConnection]_vars

----------------------------------------------------------------------------
(* perudo/network_stuff/messaging.py: the requests of a client, and        *)
(* perudo/network_stuff/server.py: the rooms of the server.                *)

\* an instance of CreateRoom
CreateRoom(room_name, network, random, probabilistic) ==
    PyObject("CreateRoom",
        [room_name |-> PyStr(room_name),
         num_network_players |-> PyInt(network),
         num_random_players |-> PyInt(random),
         num_probabilistic_players |-> PyInt(probabilistic)])

\* an instance of JoinRoom; room_name is a str or None
JoinRoom(room_name) == PyObject("JoinRoom", [room_name |-> room_name])

\* an instance of Error
Error(contents) == PyObject("Error", [contents |-> PyStr(contents)])

\* CreateRoom.num_players
CreateRoom_num_players(self) ==
    self.fields.num_network_players.int + self.fields.num_random_players.int
    + self.fields.num_probabilistic_players.int

\* seeded fault: check_for_errors that lets a room of one player pass
check_for_errors_no_minimum(self, max_num_players) ==
    IF self.fields.num_network_players.int <= 0
    THEN PyStr("Must have at least one network player")
    ELSE IF self.fields.num_random_players.int < 0
    THEN PyStr("Random player count must be non-negative")
    ELSE IF self.fields.num_probabilistic_players.int < 0
    THEN PyStr("Probabilistic player count must be non-negative")
    ELSE IF CreateRoom_num_players(self) > max_num_players
    THEN PyStr("Too many players: " \o ToString(CreateRoom_num_players(self)) \o " > "
               \o ToString(max_num_players))
    ELSE PyNone

\* CreateRoom.check_for_errors(max_num_players): the message of the first
\* rule broken, or None
check_for_errors(self, max_num_players) ==
    IF self.fields.num_network_players.int <= 0
    THEN PyStr("Must have at least one network player")
    ELSE IF self.fields.num_random_players.int < 0
    THEN PyStr("Random player count must be non-negative")
    ELSE IF self.fields.num_probabilistic_players.int < 0
    THEN PyStr("Probabilistic player count must be non-negative")
    ELSE IF CreateRoom_num_players(self) > max_num_players
    THEN PyStr("Too many players: " \o ToString(CreateRoom_num_players(self)) \o " > "
               \o ToString(max_num_players))
    ELSE IF CreateRoom_num_players(self) < 2
    THEN PyStr("Must have at least two players")
    ELSE PyNone

\* Server.max_players_per_game as the server of the model is configured
max_players_per_game == 3

\* a RemotePlayer: its name, and its connection as the key of connections
RemotePlayer(name, connection) ==
    [class |-> "RemotePlayer", name |-> name, connection |-> connection]

\* a player that runs in the server itself
LocalPlayer(class_name, name) == [class |-> class_name, name |-> name]

\* isinstance(player, RemotePlayer) and not player.is_closing()
connected(player, conns) ==
    player.class = "RemotePlayer" /\ ~is_closing(conns[player.connection])

\* isinstance(player, RemotePlayer) and player.is_closing()
disconnected(player, conns) ==
    player.class = "RemotePlayer" /\ is_closing(conns[player.connection])

\* an instance of GameManager; game is None or the PerudoGame, of which the
\* players are kept
GameManager(room_name, players, capacity) ==
    [room_name |-> room_name, players |-> players, num_players |-> capacity,
     game |-> PyNone, is_alive |-> TRUE]

\* seeded fault: num_network_players counting the closed connections too
num_network_players_closing_too(self, conns) ==
    Cardinality({i \in DOMAIN self.players : self.players[i].class = "RemotePlayer"})

\* GameManager.num_network_players
num_network_players(self, conns) ==
    Cardinality({i \in DOMAIN self.players : connected(self.players[i], conns)})

\* GameManager.num_active_players
num_active_players(self, conns) ==
    Cardinality({i \in DOMAIN self.players : ~disconnected(self.players[i], conns)})

\* GameManager.from_create_message: the bots, then the creator. players.py
\* has no attribute ProbalisticPlayer, so the first bot of that kind raises.
from_create_message(message, connection, conns) ==
    LET random_players ==
            [index \in 1..message.fields.num_random_players.int |->
                LocalPlayer("RandomLegalPlayer", "ServerLocal-Rando-" \o ToString(index - 1))]
    IN  IF message.fields.num_probabilistic_players.int > 0 THEN Raise("AttributeError")
        ELSE GameManager(message.fields.room_name.str,
                         Append(random_players, RemotePlayer(conns[connection].name, connection)),
                         CreateRoom_num_players(message))

\* self.add_player_from_connection(connection): whether it returns the new
\* player, not None; self.players after it; the Error it sent if any
add_player_from_connection(self, connection, conns) ==
    IF \E i \in DOMAIN self.players : self.players[i].name = conns[connection].name
    THEN [added |-> FALSE, players |-> self.players,
          error_msg |-> "Rejected: Player " \o conns[connection].name \o " already in game"]
    ELSE IF Len(self.players) >= self.num_players
    THEN [added |-> FALSE, players |-> self.players, error_msg |-> "Rejected: Game is full"]
    ELSE [added |-> TRUE,
          players |-> Append(self.players, RemotePlayer(conns[connection].name, connection)),
          error_msg |-> ""]

\* asyncio.gather of a ping of every RemotePlayer and True for every other
\* player: the list of results, or the first exception
gather_pings(self, conns) ==
    LET results == [i \in DOMAIN self.players |->
                        IF self.players[i].class = "RemotePlayer"
                        THEN ping(conns[self.players[i].connection])
                        ELSE PyBool(TRUE)]
    IN  IF \E i \in DOMAIN results : Raised(results[i])
        THEN results[CHOOSE i \in DOMAIN results :
                        /\ Raised(results[i])
                        /\ \A j \in 1..(i - 1) : ~Raised(results[j])]
        ELSE PyList(results)

\* the connections after writer.close() on those of sockets
closed_all(conns, sockets) ==
    [socket \in DOMAIN conns |->
        IF socket \in sockets THEN [conns[socket] EXCEPT !._writer = close(@)]
        ELSE conns[socket]]

\* self._wait_until_full() from the test of its outer loop (resumed = FALSE)
\* or from the return of its sleep (resumed = TRUE) up to where it sleeps,
\* returns or raises: how it leaves, self.players then, the last results
\* gathered, and the connections closed for a failed ping
RECURSIVE _wait_until_full(_, _, _)
_wait_until_full(self, conns, resumed) ==
    IF Len(self.players) < self.num_players
    THEN IF num_network_players(self, conns) = 0
         THEN [leaves |-> "return", players |-> self.players,
               connection_statuses |-> PyNone, closed |-> {}]
         ELSE [leaves |-> "sleep",
               players |-> SelectSeq(self.players, LAMBDA player : ~disconnected(player, conns)),
               connection_statuses |-> PyNone, closed |-> {}]
    ELSE IF ~resumed
    THEN [leaves |-> "return", players |-> self.players,
          connection_statuses |-> PyNone, closed |-> {}]
    ELSE LET connection_statuses == gather_pings(self, conns)
             first_local ==
                IF \E i \in DOMAIN self.players : self.players[i].class # "RemotePlayer"
                THEN CHOOSE i \in DOMAIN self.players :
                        /\ self.players[i].class # "RemotePlayer"
                        /\ \A j \in 1..(i - 1) : self.players[j].class = "RemotePlayer"
                ELSE Len(self.players) + 1
             failed == {i \in 1..(first_local - 1) : ~connection_statuses.list[i].bool}
             sockets == {self.players[i].connection : i \in failed}
         IN  IF Raised(connection_statuses)
             THEN [leaves |-> connection_statuses.raise, players |-> self.players,
                   connection_statuses |-> connection_statuses, closed |-> {}]
             ELSE IF first_local <= Len(self.players)
             THEN [leaves |-> "AssertionError", players |-> self.players,
                   connection_statuses |-> connection_statuses, closed |-> sockets]
             ELSE LET again ==
                        _wait_until_full(
                            [self EXCEPT !.players =
                                SelectSeq(self.players, LAMBDA player :
                                    \A i \in failed : self.players[i] # player)],
                            closed_all(conns, sockets), FALSE)
                  IN  [again EXCEPT !.connection_statuses = connection_statuses,
                                    !.closed = @ \cup sockets]

\* Python's seq[:n]
slice_to(seq, n) ==
    IF n >= Len(seq) THEN seq
    ELSE IF n >= 0 THEN SubSeq(seq, 1, n)
    ELSE IF Len(seq) + n >= 0 THEN SubSeq(seq, 1, Len(seq) + n)
    ELSE <<>>

\* the connections of the RemotePlayers of seq[n:]
extra_connections(seq, n) ==
    {seq[i].connection : i \in
        {j \in DOMAIN seq :
            /\ seq[j].class = "RemotePlayer"
            /\ IF n >= 0 THEN j > n ELSE j > Len(seq) + n}}

\* seeded fault: start_manager that starts a game whoever is connected
start_manager_no_check(self, conns) ==
    [starts |-> TRUE,
     players |-> slice_to(self.players, self.num_players),
     extras |-> extra_connections(self.players, self.num_players)]

\* self.start_manager() after _wait_until_full has returned: whether a game
\* is started, the players it is made of, and the connections of the players
\* turned away as extras
start_manager(self, conns) ==
    IF num_network_players(self, conns) = 0 \/ num_active_players(self, conns) < 2
    THEN [starts |-> FALSE, players |-> self.players, extras |-> {}]
    ELSE [starts |-> TRUE,
          players |-> slice_to(self.players, self.num_players),
          extras |-> extra_connections(self.players, self.num_players)]

----------------------------------------------------------------------------
(* The server: one handler coroutine per accepted connection. The code of  *)
(* a coroutine between two awaits runs without interruption, so an action  *)
(* is the code from one await that lets others run to the next. A handler  *)
(* starts when the handshake has returned its Connection and receive_obj   *)
(* the first object of the client. The handler of RequestRoomList reads    *)
(* the rooms and changes nothing; no client of the model sends it.         *)

\* the sockets the server accepts, and the name the client of each gives in
\* its handshake: two clients give the same name
Sockets == {"c1", "c2", "c3"}

ClientName(socket) == IF socket = "c2" THEN "b" ELSE "a"

RoomNames == {"r", "s"}

\* the numbers of network, random and probabilistic players asked for: two
\* that pass check_for_errors (a room full with its creator, a room that
\* waits for one more client), one that passes and asks for a bot of the
\* class that players.py lacks, and one for each rule broken but the third
RoomSizes ==
    {<<1, 1, 0>>, <<2, 0, 0>>, <<1, 0, 1>>,
     <<0, 2, 0>>, <<1, -1, 0>>, <<2, 2, 0>>, <<1, 0, 0>>}

\* the CreateRoom objects clients send
CreateRooms ==
    {CreateRoom(room_name, size[1], size[2], size[3]) :
        room_name \in RoomNames, size \in RoomSizes}

\* the JoinRoom objects clients send
JoinRooms == {JoinRoom(PyNone)} \cup {JoinRoom(PyStr(room_name)) : room_name \in RoomNames}

\* a first object no handler is registered for: what receive_obj returns
\* for a frame it rejects
UnhandledObjects == {CorruptedRecord("Receive failed")}

\* dict[key] = value
setitem(dict, key, value) ==
    [k \in DOMAIN dict \cup {key} |-> IF k = key THEN value ELSE dict[k]]

\* the Connection from_handshake_server_side returns for the client of each
\* socket
Accepted ==
    [socket \in Sockets |->
        Connection(ClientName(socket),
            _send_wrapped_message(
                Bytes(to_bytes(from_data(
                        PyObject("FromServerHandshake", [message |-> PyStr("Who dis?")]),
                        "private_1", 1)),
                      MAX_MESSAGE_LEN),
                Writer, "ok"),
            "public_2", "private_1")]

\* connection after await connection.send_obj(obj) that drains
sent_obj(connection, obj) ==
    [connection EXCEPT !._writer = send_obj(connection, obj, 1, MAX_MESSAGE_LEN, "ok")._writer]

\* connection after await connection.close()
closed(connection) == [connection EXCEPT !._writer = close(@)]

\* connection after the except and the finally clause of _handle_client
\* when the handler raised exception
handler_raised(connection, exception) ==
    closed(sent_obj(connection,
        Error("Error in handling client " \o connection.name \o ": " \o exception)))

\* the coroutine of a client that created a room: where it is, the object it
\* received, its GameManager, the results of the last pings gathered, and,
\* once it has started a game, self.players and the connections as they
\* were when start_manager went past its test (None before); deserted
\* records that at some time it slept in _wait_until_full while none of its
\* remote players was connected
ManagerTask(at, message, room, connection_statuses, started, deserted) ==
    [pc |-> at, message |-> message, room |-> room,
     connection_statuses |-> connection_statuses, started |-> started,
     deserted |-> deserted]

\* the coroutine of any other client; joined is the socket of the creator
\* of the room it was added to
ClientTask(at, message, joined) == [pc |-> at, message |-> message, joined |-> joined]

\* self.room_name_to_game_manager_d[room_name]: rooms holds the socket of
\* the creator, whose coroutine holds the GameManager
game_manager(room_name) == tasks[rooms[room_name]].room

\* start_manager of the room of socket from _wait_until_full, entered or
\* resumed, to its next await or to the end of the handler
run_manager(socket, message, room, conns, resumed) ==
    LET waited == _wait_until_full(room, conns, resumed)
        waiting == [room EXCEPT !.players = waited.players]
        conns_waited == closed_all(conns, waited.closed)
        started == start_manager(waiting, conns_waited)
        deserted == socket \in DOMAIN tasks /\ "room" \in DOMAIN tasks[socket]
                    /\ tasks[socket].deserted
    IN  CASE waited.leaves = "sleep" ->
                /\ tasks' = setitem(tasks, socket,
                        ManagerTask("_wait_until_full", message, waiting,
                                    waited.connection_statuses, PyNone, deserted))
                /\ connections' = conns_waited
          [] waited.leaves = "return" /\ started.starts ->
                /\ tasks' = setitem(tasks, socket,
                        ManagerTask("game_thread", message,
                            [waiting EXCEPT !.players = started.players,
                                            !.game = [players |-> started.players]],
                            waited.connection_statuses,
                            [players |-> waiting.players, connections |-> conns_waited],
                            deserted))
                /\ connections' =
                        [c \in DOMAIN conns_waited |->
                            IF c \in started.extras
                            THEN closed(sent_obj(conns_waited[c],
                                    Error("Rejected: Somehow more players than expected")))
                            ELSE conns_waited[c]]
          [] waited.leaves = "return" /\ ~started.starts ->
                /\ tasks' = setitem(tasks, socket,
                        ManagerTask("done", message, waiting,
                                    waited.connection_statuses, PyNone, deserted))
                /\ connections' = [conns_waited EXCEPT ![socket] = closed(@)]
          [] OTHER ->
                /\ tasks' = setitem(tasks, socket,
                        ManagerTask("done", message, waiting,
                                    waited.connection_statuses, PyNone, deserted))
                /\ connections' =
                        [conns_waited EXCEPT ![socket] = handler_raised(@, waited.leaves)]

\* _handle_create_room from GameManager.from_create_message on
create_room(socket, message, conns) ==
    LET room == from_create_message(message, socket, conns)
    IN  IF Raised(room)
        THEN /\ connections' = [conns EXCEPT ![socket] = handler_raised(@, room.raise)]
             /\ tasks' = setitem(tasks, socket, ClientTask("done", message, "None"))
             /\ UNCHANGED rooms
        ELSE /\ rooms' = setitem(rooms, message.fields.room_name.str, socket)
             /\ run_manager(socket, message, room, conns, FALSE)

\* _handle_create_room for the first object of a client: up to the awaits
\* of a failed validation, or on into start_manager
HandleCreateRoom ==
    /\ \E socket \in Sockets \ DOMAIN connections, message \in CreateRooms :
        LET validation_error == check_for_errors(message, max_players_per_game)
        IN  IF message.fields.room_name.str \in DOMAIN rooms
            THEN /\ connections' = setitem(connections, socket,
                        closed(sent_obj(Accepted[socket],
                            Error("Rejected: Room " \o message.fields.room_name.str
                                  \o " already exists"))))
                 /\ tasks' = setitem(tasks, socket, ClientTask("done", message, "None"))
                 /\ UNCHANGED rooms
            ELSE IF validation_error.py # "NoneType"
            THEN /\ connections' = setitem(connections, socket,
                        closed(sent_obj(Accepted[socket], Error(validation_error.str))))
                 /\ tasks' = setitem(tasks, socket,
                        ClientTask("_handle_create_room", message, "None"))
                 /\ UNCHANGED rooms
            ELSE create_room(socket, message, setitem(connections, socket, Accepted[socket]))
    /\ UNCHANGED <<game_vars, call, envelope_vars, net_call>>

\* _handle_create_room after the awaits of a failed validation: it has not
\* returned
CreateRoomAfterError ==
    /\ \E socket \in DOMAIN tasks :
        /\ tasks[socket].pc = "_handle_create_room"
        /\ create_room(socket, tasks[socket].message, connections)
    /\ UNCHANGED <<game_vars, call, envelope_vars, net_call>>

\* _wait_until_full when its sleep returns
WaitUntilFull ==
    /\ \E socket \in DOMAIN tasks :
        /\ tasks[socket].pc = "_wait_until_full"
        /\ run_manager(socket, tasks[socket].message, tasks[socket].room, connections, TRUE)
    /\ UNCHANGED <<game_vars, call, envelope_vars, net_call, rooms>>

\* start_manager when the thread of the game has ended; then the finally
\* clause of _handle_client
GameThreadDone ==
    /\ \E socket \in DOMAIN tasks :
        /\ tasks[socket].pc = "game_thread"
        /\ tasks' = [tasks EXCEPT ![socket].pc = "done", ![socket].room.game = PyNone]
        /\ connections' = [connections EXCEPT ![socket] = closed(@)]
    /\ UNCHANGED <<game_vars, call, envelope_vars, net_call, rooms>>

\* _handle_join_room for the first object of a client
HandleJoinRoom ==
    /\ \E socket \in Sockets \ DOMAIN connections, message \in JoinRooms :
        LET conns == setitem(connections, socket, Accepted[socket])
            rooms_with_space ==
                {room_name \in DOMAIN rooms :
                    Len(game_manager(room_name).players) < game_manager(room_name).num_players}
            candidates ==
                IF message.fields.room_name.py = "NoneType" THEN rooms_with_space
                ELSE {message.fields.room_name.str} \cap DOMAIN rooms
            error_message ==
                IF message.fields.room_name.py = "NoneType"
                THEN "Rejected: No rooms with space"
                ELSE "Rejected: Room " \o message.fields.room_name.str \o " does not exist"
        IN  IF candidates = {}
            THEN /\ connections' = setitem(connections, socket,
                        closed(sent_obj(Accepted[socket], Error(error_message))))
                 /\ tasks' = setitem(tasks, socket, ClientTask("done", message, "None"))
            ELSE \E room_name \in candidates :
                    LET player == add_player_from_connection(game_manager(room_name), socket, conns)
                    IN  IF ~player.added
                        THEN /\ connections' = setitem(connections, socket,
                                    closed(sent_obj(Accepted[socket], Error(player.error_msg))))
                             /\ tasks' = setitem(tasks, socket,
                                    ClientTask("done", message, "None"))
                        ELSE /\ connections' = conns
                             /\ tasks' = setitem(
                                    [tasks EXCEPT ![rooms[room_name]].room.players = player.players],
                                    socket, ClientTask("room.is_alive", message, rooms[room_name]))
    /\ UNCHANGED <<game_vars, call, envelope_vars, net_call, rooms>>

\* _handle_join_room when the sleep of its last loop returns: it sleeps
\* again while the room is alive, else it returns and the finally clause of
\* _handle_client closes the connection
JoinRoomSleepReturns ==
    /\ \E socket \in DOMAIN tasks :
        /\ tasks[socket].pc = "room.is_alive"
        /\ IF tasks[tasks[socket].joined].room.is_alive
           THEN UNCHANGED <<tasks, connections>>
           ELSE /\ tasks' = [tasks EXCEPT ![socket].pc = "done"]
                /\ connections' = [connections EXCEPT ![socket] = closed(@)]
    /\ UNCHANGED <<game_vars, call, envelope_vars, net_call, rooms>>

\* _handle_client for a first object of a type without a handler: the
\* lookup raises KeyError
HandleClientKeyError ==
    /\ \E socket \in Sockets \ DOMAIN connections, message \in UnhandledObjects :
        /\ connections' = setitem(connections, socket,
                handler_raised(Accepted[socket], "KeyError"))
        /\ tasks' = setitem(tasks, socket, ClientTask("done", message, "None"))
    /\ UNCHANGED <<game_vars, call, envelope_vars, net_call, rooms>>

\* none of the remote players of room is connected
no_network_player(room, conns) ==
    \A i \in DOMAIN room.players : ~connected(room.players[i], conns)

\* the client of a connection goes away: its transport closes
Disconnect ==
    /\ \E socket \in DOMAIN connections :
        /\ ~is_closing(connections[socket])
        /\ connections' = [connections EXCEPT ![socket] = closed(@)]
    /\ tasks' =
        [socket \in DOMAIN tasks |->
            IF /\ tasks[socket].pc = "_wait_until_full"
               /\ no_network_player(tasks[socket].room, connections')
            THEN [tasks[socket] EXCEPT !.deserted = TRUE]
            ELSE tasks[socket]]
    /\ UNCHANGED <<game_vars, call, envelope_vars, net_call, rooms>>

\* one pass of _purge_disconnected over the rooms
PurgeDisconnected ==
    /\ rooms' =
        [room_name \in
            {name \in DOMAIN rooms :
                /\ game_manager(name).is_alive
                /\ \E i \in DOMAIN game_manager(name).players :
                    connected(game_manager(name).players[i], connections)} |->
            rooms[room_name]]
    /\ rooms' # rooms
    /\ UNCHANGED <<game_vars, call, envelope_vars, net_call, connections, tasks>>

NextServer ==
    \/ HandleCreateRoom
    \/ CreateRoomAfterError
    \/ WaitUntilFull
    \/ GameThreadDone
    \/ HandleJoinRoom
    \/ JoinRoomSleepReturns
    \/ HandleClientKeyError
    \/ Disconnect
    \/ PurgeDisconnected

SpecServer == InitActions /\ [][NextServer]_vars

----------------------------------------------------------------------------
(* perudo/network_stuff/server.py: RemotePlayer, the player the engine     *)
(* calls from its own thread. A call of the engine runs one coroutine on   *)
(* the loop of the server and waits for it at most TIMEOUT seconds.        *)

\* binding the keyword arguments of a call to the parameters of a function
\* that declares neither defaults nor **kwargs
bind(parameters, kwargs) ==
    IF DOMAIN kwargs = parameters THEN kwargs ELSE Raise("TypeError")

\* self._async_do(coroutine): what future.result(timeout=self.TIMEOUT)
\* returns or raises when the coroutine ends as result, in time or not
_async_do(result, in_time) == IF in_time THEN result ELSE Raise("TimeoutError")

\* the parameters of RemotePlayer.get_action after self
get_action_parameters ==
    {"round_actions", "is_single_die_round", "num_dice_in_play", "num_players_alive"}

\* the InvalidAction of the except clause of get_action
communication_error(self, exc) ==
    BaseFrozen_init("InvalidAction",
        [attempted_action |-> PyNone,
         reason |-> PyStr("Error communicating with " \o self.name \o ": " \o exc.raise)])

\* the end of get_action once the reply was awaited: receiving is what
\* receive_obj has left
replied(self, receiving, received_in_time, writer, received_salts) ==
    LET putative_action == _async_do(receiving.ret, received_in_time)
    IN  IF Raised(putative_action)
        THEN Left(communication_error(self, putative_action), writer, received_salts, FALSE)
        ELSE IF ~isinstance(putative_action, "Action")
        THEN Left(BaseFrozen_init("InvalidAction",
                    [attempted_action |-> putative_action,
                     reason |-> PyStr("Expected Action, got " \o putative_action.class)]),
                  receiving._writer, receiving.received_salts, receiving.body_read)
        ELSE Left(putative_action, receiving._writer, receiving.received_salts,
                  receiving.body_read)

\* get_action once the request was handed to send_obj: sending is what
\* send_obj has left
request_sent(self, sending, sent_in_time, incoming, received_salts, received_in_time) ==
    IF Raised(_async_do(sending.ret, sent_in_time))
    THEN Left(communication_error(self, _async_do(sending.ret, sent_in_time)),
              sending._writer, received_salts, FALSE)
    ELSE replied(self,
                 receive_obj([self EXCEPT !._writer = sending._writer], incoming,
                             received_salts),
                 received_in_time, sending._writer, received_salts)

\* get_action once the ActionRequest is built: request is what its
\* constructor returned or raised
requested(self, request, salt, wrapped_len, drained, sent_in_time, incoming, received_salts, received_in_time) ==
    IF Raised(request)
    THEN Left(communication_error(self, request), self._writer, received_salts, FALSE)
    ELSE request_sent(self, send_obj(self, request, salt, wrapped_len, drained),
                      sent_in_time, incoming, received_salts, received_in_time)

\* the body of RemotePlayer.get_action once its parameters are bound to
\* kwargs: the request is drained as drained and its coroutine is done in
\* time or not, then the reader yields incoming and that coroutine is done
\* in time or not. A coroutine that is not done in time has not read.
get_action_body(self, kwargs, salt, wrapped_len, drained, sent_in_time, incoming, received_salts, received_in_time) ==
    requested(self, BaseFrozen_init("ActionRequest", kwargs), salt, wrapped_len, drained,
              sent_in_time, incoming, received_salts, received_in_time)

\* player.get_action(**kwargs) for a RemotePlayer of connection self: the
\* arguments are bound before the body and its try are entered
get_action(self, kwargs, salt, wrapped_len, drained, sent_in_time, incoming, received_salts, received_in_time) ==
    IF Raised(bind(get_action_parameters, kwargs))
    THEN Left(bind(get_action_parameters, kwargs), self._writer, received_salts, FALSE)
    ELSE get_action_body(self, kwargs, salt, wrapped_len, drained, sent_in_time, incoming,
                         received_salts, received_in_time)

\* self._async_do(self.connection.send_obj(...)), sending being what send_obj
\* has left
awaited(sending, in_time) ==
    Left(_async_do(sending.ret, in_time), sending._writer, <<>>, FALSE)

\* player.react_to_round_summary(round_summary) for a RemotePlayer of
\* connection self: what it returns or raises, and the writer after it
react_to_round_summary(self, round_summary, salt, wrapped_len, drained, in_time) ==
    awaited(send_obj(self, round_summary, salt, wrapped_len, drained), in_time)

\* player.send_game_summary(game_summary)
send_game_summary(self, game_summary, salt, wrapped_len, drained, in_time) ==
    awaited(send_obj(self, game_summary, salt, wrapped_len, drained), in_time)

\* the end of set_dice: whatever the try has left, the except clause prints
\* and the method returns None
dice_set(tried) == Left(PyNone, tried._writer, <<>>, FALSE)

\* set_dice once SetDice(dice=dice) is built: message is what its constructor
\* returned or raised, inside the try
dice_message_built(self, message, salt, wrapped_len, drained, in_time) ==
    IF Raised(message) THEN dice_set(Left(message, self._writer, <<>>, FALSE))
    ELSE dice_set(awaited(send_obj(self, message, salt, wrapped_len, drained), in_time))

\* player.set_dice(dice) for a RemotePlayer of connection self
set_dice(self, dice, salt, wrapped_len, drained, in_time) ==
    dice_message_built(self, BaseFrozen_init("SetDice", [dice |-> dice]), salt, wrapped_len,
                       drained, in_time)

\* the loop of end_round over the players from the ith on: what it leaves
\* (None, or the exception that ended it) and the connections after it
RECURSIVE react_to_round_summary_all(_, _, _, _, _, _)
react_to_round_summary_all(players, i, conns, round_summary, drained, in_time) ==
    IF i > Len(players) THEN [ret |-> PyNone, connections |-> conns]
    ELSE IF players[i].class # "RemotePlayer"
    THEN react_to_round_summary_all(players, i + 1, conns, round_summary, drained, in_time)
    ELSE LET socket == players[i].connection
             reacted == react_to_round_summary(conns[socket], round_summary, 1,
                            MAX_MESSAGE_LEN, drained[socket], in_time[socket])
             after == [conns EXCEPT ![socket]._writer = reacted._writer]
         IN  IF Raised(reacted.ret) THEN [ret |-> reacted.ret, connections |-> after]
             ELSE react_to_round_summary_all(players, i + 1, after, round_summary, drained,
                                             in_time)

\* GameManager._broadcast_winner_cb from the ith player on, game_summary
\* being GameSummary.from_game(...)
RECURSIVE _broadcast_winner_cb(_, _, _, _, _, _)
_broadcast_winner_cb(players, i, conns, game_summary, drained, in_time) ==
    IF i > Len(players) THEN [ret |-> PyNone, connections |-> conns]
    ELSE IF players[i].class # "RemotePlayer"
    THEN _broadcast_winner_cb(players, i + 1, conns, game_summary, drained, in_time)
    ELSE LET socket == players[i].connection
             summarised == send_game_summary(conns[socket], game_summary, 1,
                               MAX_MESSAGE_LEN, drained[socket], in_time[socket])
             after == [conns EXCEPT ![socket]._writer = summarised._writer]
         IN  IF Raised(summarised.ret) THEN [ret |-> summarised.ret, connections |-> after]
             ELSE _broadcast_winner_cb(players, i + 1, after, game_summary, drained, in_time)

----------------------------------------------------------------------------
(* Methods of messaging.py and of server.py called directly, one call from *)
(* the initial state.                                                      *)

\* CreateRoom.check_for_errors(max_num_players)
CallCheckForErrors ==
    /\ net_call.op = "none"
    /\ \E network \in -1..MaxAsked, random \in -1..MaxAsked, probabilistic \in -1..MaxAsked,
          max_num_players \in 1..(MaxAsked + 1) :
        net_call' = [op |-> "CreateRoom.check_for_errors", nth |-> 1,
                     self |-> CreateRoom("r", network, random, probabilistic),
                     max_num_players |-> max_num_players,
                     ret |-> check_for_errors(CreateRoom("r", network, random, probabilistic),
                                              max_num_players)]
    /\ UNCHANGED <<game_vars, call, envelope_vars, connections, rooms, tasks>>

\* the connections of two clients after their handshakes
Handshaken == [socket \in {"c1", "c2"} |-> Accepted[socket]]

\* the keyword arguments get_action is called with: those take_turn passes,
\* and those the method declares, for the first turn of a round and for a
\* later one
GetActionCalls ==
    {[observation |->
        PyObject("ActionObservation",
            [previous_action |-> PyNone, is_single_die_round |-> PyBool(FALSE),
             num_players |-> PyInt(2), num_living_players |-> PyInt(2),
             num_dice_in_play |-> PyInt(2),
             num_dice_by_player_history |-> PyList(<<PyList(<<PyInt(1), PyInt(1)>>)>>),
             all_rounds_actions |-> PyList(<<PyList(<<>>)>>),
             dice_reveal_history |-> PyList(<<>>)])]}
    \cup {[round_actions |-> PyList(round_actions),
           is_single_die_round |-> PyBool(FALSE), num_dice_in_play |-> PyInt(2),
           num_players_alive |-> PyInt(2)] :
            round_actions \in {<<>>, <<PyObject("Bid", [face |-> PyInt(2), count |-> PyInt(1)])>>}}

\* player.get_action(...) as the engine's thread calls it
CallGetAction ==
    /\ net_call.op = "none"
    /\ \E self \in {Accepted["c1"], closed(Accepted["c1"])}, kwargs \in GetActionCalls,
          drained \in Drains, sent_in_time \in BOOLEAN, incoming \in Incomings,
          received_in_time \in BOOLEAN :
        \E left \in {get_action(self, kwargs, 1, MAX_MESSAGE_LEN, drained, sent_in_time,
                                incoming, RECEIVED_SALTS, received_in_time)} :
            /\ net_call' = [op |-> "RemotePlayer.get_action", nth |-> 1, self |-> self,
                            kwargs |-> kwargs, drained |-> drained,
                            sent_in_time |-> sent_in_time, incoming |-> incoming,
                            received_in_time |-> received_in_time,
                            ret |-> left.ret, _writer |-> left._writer]
            /\ RECEIVED_SALTS' = left.received_salts
    /\ UNCHANGED <<game_vars, call, SENT_SALTS, sent, received, connections, rooms, tasks>>

\* the players of a game of the server: a bot and a client, or two clients
PlayerLists ==
    {<<LocalPlayer("RandomLegalPlayer", "ServerLocal-Rando-0"), RemotePlayer("a", "c1")>>,
     <<RemotePlayer("a", "c1"), RemotePlayer("b", "c2")>>}

\* RoundSummary.from_game_losers(...) of a round of two turns
OneRoundSummary ==
    PyObject("RoundSummary",
        [players |-> PyList(<<PyStr("a"), PyStr("b")>>),
         all_player_dice |->
            PyList(<<PyObject("DiceCounts", [_counts |-> PyList(<<PyInt(0), PyInt(1)>>)]),
                     PyObject("DiceCounts", [_counts |-> PyList(<<PyInt(1), PyInt(0)>>)])>>),
         all_actions |->
            PyList(<<PyObject("Bid", [face |-> PyInt(2), count |-> PyInt(1)]),
                     PyObject("Challenge", <<>>)>>),
         single_die_round |-> PyBool(FALSE),
         losers |-> PyList(<<PyStr("b")>>)])

\* GameSummary.from_game(...) of a game of that one round
OneGameSummary ==
    PyObject("GameSummary",
        [all_rounds_actions |-> PyList(<<OneRoundSummary.fields.all_actions>>),
         all_rounds_dice |-> PyList(<<OneRoundSummary.fields.all_player_dice>>),
         players |-> OneRoundSummary.fields.players,
         all_rounds_losers |-> PyList(<<OneRoundSummary.fields.losers>>),
         single_die_round_history |-> PyList(<<PyBool(FALSE)>>),
         winner |-> PyStr("a")])

\* the loop of end_round that hands the RoundSummary to every player
CallReactToRoundSummary ==
    /\ net_call.op = "none"
    /\ \E players \in PlayerLists, gone \in SUBSET {"c2"},
          drained \in [{"c1", "c2"} -> Drains], in_time \in [{"c1", "c2"} -> BOOLEAN] :
        \E left \in {react_to_round_summary_all(players, 1, closed_all(Handshaken, gone),
                                                OneRoundSummary, drained, in_time)} :
            /\ net_call' = [op |-> "react_to_round_summary", nth |-> 1, players |-> players,
                            connections |-> closed_all(Handshaken, gone),
                            drained |-> drained, in_time |-> in_time, ret |-> left.ret]
            /\ connections' = left.connections
    /\ UNCHANGED <<game_vars, call, envelope_vars, rooms, tasks>>

\* game_end_callback(winner), which is GameManager._broadcast_winner_cb
CallBroadcastWinner ==
    /\ net_call.op = "none"
    /\ \E players \in PlayerLists, gone \in SUBSET {"c2"},
          drained \in [{"c1", "c2"} -> Drains], in_time \in [{"c1", "c2"} -> BOOLEAN] :
        \E left \in {_broadcast_winner_cb(players, 1, closed_all(Handshaken, gone),
                                          OneGameSummary, drained, in_time)} :
            /\ net_call' = [op |-> "_broadcast_winner_cb", nth |-> 1, players |-> players,
                            connections |-> closed_all(Handshaken, gone),
                            drained |-> drained, in_time |-> in_time, ret |-> left.ret]
            /\ connections' = left.connections
    /\ UNCHANGED <<game_vars, call, envelope_vars, rooms, tasks>>

\* the dice start_new_round hands to set_dice, a DiceCounts, and a Counter as
\* the method declares
SetDiceCalls == {EmptyDiceCounts, PyCounter({<<PyInt(2), PyInt(1)>>})}

\* player.set_dice(dice_counts) as start_new_round calls it
CallSetDice ==
    /\ net_call.op = "none"
    /\ \E self \in {Accepted["c1"], closed(Accepted["c1"])}, dice \in SetDiceCalls,
          drained \in Drains, in_time \in BOOLEAN :
        \E left \in {set_dice(self, dice, 1, MAX_MESSAGE_LEN, drained, in_time)} :
            /\ net_call' = [op |-> "RemotePlayer.set_dice", nth |-> 1, self |-> self,
                            dice |-> dice, drained |-> drained, in_time |-> in_time,
                            ret |-> left.ret]
            /\ connections' = [socket \in {"c1"} |-> [self EXCEPT !._writer = left._writer]]
    /\ UNCHANGED <<game_vars, call, envelope_vars, rooms, tasks>>

\* get_previous_living_player_index() and get_next_living_player_index() of a
\* game whose last entry of num_dice_by_player_history is snapshot and whose
\* cur_player_index is cur
CallLivingPlayerIndex ==
    /\ net_call.op = "none"
    /\ \E n \in 2..MaxPlayers :
        \E snapshot \in [0..(n - 1) -> 0..MaxStartDice], cur \in 0..(n - 1) :
            net_call' = [op |-> "living_player_index", nth |-> 1,
                         snapshot |-> snapshot, cur |-> cur,
                         previous |-> get_previous_living_player_index(snapshot, cur),
                         next |-> get_next_living_player_index(snapshot, cur)]
    /\ UNCHANGED <<game_vars, call, envelope_vars, connections, rooms, tasks>>

NextCalls ==
    \/ CallCheckForErrors
    \/ CallLivingPlayerIndex
    \/ CallGetAction
    \/ CallReactToRoundSummary
    \/ CallBroadcastWinner
    \/ CallSetDice

SpecCalls == InitActions /\ [][NextCalls]_vars

----------------------------------------------------------------------------
(* A game of two remote players as the thread of the engine and the loop   *)
(* of the server see it: the engine calls get_action of the player whose   *)
(* turn it is and waits in _async_do; a coroutine that _async_do gave up   *)
(* waiting for is not cancelled and stays on the loop. tasks holds the     *)
(* receive_obj coroutines that are still on the loop.                      *)

\* what the client of a remote player may answer, now or late: nothing
\* before the stream ends, or a Bid it has signed
RequestReplies ==
    {Incoming("nothing", <<>>, Bytes(NotJson, 0))}
    \cup {Incoming("frame", pack(MAX_MESSAGE_LEN),
                   Bytes(to_bytes(from_data(PyObject("Bid", [face |-> PyInt(2),
                                                             count |-> PyInt(1)]),
                                            "private_2", salt)),
                         MAX_MESSAGE_LEN)) : salt \in 1..MaxSalt}

\* the receive_obj coroutines of a connection that are on the loop
pending_reads(socket) ==
    {i \in DOMAIN tasks : tasks[i].coroutine = "receive_obj" /\ tasks[i].connection = socket}

\* get_action reaches self._async_do(self.connection.receive_obj()): its
\* arguments were bound, the ActionRequest was built and signed, and the
\* coroutine of send_obj was done in time
reaches_receive_obj(self, kwargs, salt, sent_in_time) ==
    /\ ~Raised(bind(get_action_parameters, kwargs))
    /\ ~Raised(BaseFrozen_init("ActionRequest", kwargs))
    /\ ~Raised(from_data(BaseFrozen_init("ActionRequest", kwargs), self._self_private_key, salt))
    /\ sent_in_time

\* the other player of the game
other_socket(socket) == IF socket = "c1" THEN "c2" ELSE "c1"

\* what take_turn makes of the action get_action returned: "raise" when
\* get_action or validate raises, "pass" when a bid is accepted, else the
\* player that loses a die. An InvalidAction costs the caller a die; which
\* bids validate rejects and who loses a Challenge or an Exact depends on
\* the round and is left open.
turn_outcomes(ret, caller) ==
    IF Raised(ret) \/ isinstance(ret, "NoOp") THEN {"raise"}
    ELSE IF isinstance(ret, "InvalidAction") THEN {caller}
    ELSE IF isinstance(ret, "Bid") THEN {"pass", caller}
    ELSE {caller, other_socket(caller)}

\* GameManager.start_manager has built the game of the two clients
StartGameOfRemotePlayers ==
    /\ net_call.op = "none"
    /\ \E dice \in [DOMAIN Handshaken -> 1..MaxStartDice], cur \in DOMAIN Handshaken :
        net_call' = [op |-> "main_loop", nth |-> 0, dice |-> dice, cur |-> cur,
                     ended |-> FALSE, ret |-> PyNone]
    /\ connections' = Handshaken
    /\ tasks' = <<>>
    /\ UNCHANGED <<game_vars, call, envelope_vars, rooms>>

\* one take_turn of a turn of a remote player: get_action sends the request
\* and awaits the answer; a read that is not done in time stays on the
\* loop. A read started while another read of the connection is on the loop
\* ends at once, readexactly raising RuntimeError. Then take_turn passes the
\* turn or end_round takes a die from the loser, who opens the next round
\* if it still has dice.
EngineGetAction ==
    /\ net_call.op \in {"main_loop", "RemotePlayer.get_action"}
    /\ ~net_call.ended
    /\ net_call.nth < MaxNetCalls
    /\ \E kwargs \in GetActionCalls, drained \in Drains, sent_in_time \in BOOLEAN,
          incoming \in IF pending_reads(net_call.cur) = {} THEN RequestReplies
                       ELSE {Incoming("nothing", <<>>, Bytes(NotJson, 0))},
          received_in_time \in IF pending_reads(net_call.cur) = {} THEN BOOLEAN ELSE {TRUE} :
        \E left \in {get_action(connections[net_call.cur], kwargs, 1, MAX_MESSAGE_LEN,
                                drained, sent_in_time, incoming, RECEIVED_SALTS,
                                received_in_time)},
           read_started \in {reaches_receive_obj(connections[net_call.cur], kwargs, 1,
                                                 sent_in_time)} :
            /\ \E outcome \in turn_outcomes(left.ret, net_call.cur) :
                net_call' =
                    [op |-> "RemotePlayer.get_action", nth |-> net_call.nth + 1,
                     socket |-> net_call.cur, kwargs |-> kwargs,
                     pending |-> Cardinality(pending_reads(net_call.cur)),
                     request_written |->
                        Len(left._writer.written)
                            > Len(connections[net_call.cur]._writer.written),
                     read_started |-> read_started,
                     ret |-> left.ret,
                     dice |-> IF outcome \in DOMAIN Handshaken
                              THEN [net_call.dice EXCEPT ![outcome] = @ - 1]
                              ELSE net_call.dice,
                     cur |-> IF outcome = "pass" THEN other_socket(net_call.cur)
                             ELSE IF outcome = "raise" THEN net_call.cur
                             ELSE IF net_call.dice[outcome] > 1 THEN outcome
                             ELSE other_socket(outcome),
                     ended |-> \/ outcome = "raise"
                               \/ outcome \in DOMAIN Handshaken /\ net_call.dice[outcome] = 1]
            /\ connections' = [connections EXCEPT ![net_call.cur]._writer = left._writer]
            /\ RECEIVED_SALTS' = left.received_salts
            /\ tasks' = IF read_started /\ ~received_in_time
                        THEN Append(tasks, [coroutine |-> "receive_obj",
                                            connection |-> net_call.cur])
                        ELSE tasks
    /\ UNCHANGED <<game_vars, call, SENT_SALTS, sent, received, rooms>>

\* the loop ends a receive_obj nobody waits for any more: the client has
\* answered late or the stream has ended; what it returns is dropped
PendingReadDone ==
    /\ net_call.op = "RemotePlayer.get_action"
    /\ \E i \in DOMAIN tasks, incoming \in RequestReplies :
        \E left \in {receive_obj(connections[tasks[i].connection], incoming, RECEIVED_SALTS)} :
            /\ connections' = [connections EXCEPT ![tasks[i].connection]._writer = left._writer]
            /\ RECEIVED_SALTS' = left.received_salts
            /\ tasks' = SubSeq(tasks, 1, i - 1) \o SubSeq(tasks, i + 1, Len(tasks))
    /\ UNCHANGED <<game_vars, call, SENT_SALTS, sent, received, net_call, rooms>>

NextRequests ==
    \/ StartGameOfRemotePlayers
    \/ EngineGetAction
    \/ PendingReadDone

SpecRequests == InitActions /\ [][NextRequests]_vars

----------------------------------------------------------------------------
(* Properties of the methods of actions.py (checked under SpecActions) *)

\* the number of dice that match a bid: the dice at its face, and the wild
\* dice too unless the round is a single-die round or the bid is on the wild face
Matching(bid, dice, single) ==
    IF single \/ bid.face = WILD_FACE_VAL
    THEN dice[bid.face - MIN_FACE_VAL + 1]
    ELSE dice[bid.face - MIN_FACE_VAL + 1] + dice[WILD_FACE_VAL - MIN_FACE_VAL + 1]

\* n = ceil(c / 2)
IsCeilHalf(n, c) == 2 * n >= c /\ 2 * n < c + 2

\* C1: for a previous bid (f, c) with f in 1..6 and c > 0 and a next face g
\* in 1..6, min_next_count(g) is c+1 if g = f; c if g > f and f is not wild;
\* ceil(c/2) if g is wild and f is not; 2c+1 if f is wild and g is not; and
\* ceil(c/2)*2+1 if g < f and both are not wild.
C1_MinNextCountTable ==
    call.op = "Bid.min_next_count" =>
        LET f == call.self.face
            c == call.self.count
            g == call.next_face
            wild == WILD_FACE_VAL
        IN  /\ (g = f => call.ret = c + 1)
            /\ (g > f /\ f # wild => call.ret = c)
            /\ (g = wild /\ f # wild => IsCeilHalf(call.ret, c))
            /\ (f = wild /\ g # wild => call.ret = 2 * c + 1)
            /\ (g < f /\ g # wild /\ f # wild =>
                    /\ call.ret % 2 = 1
                    /\ IsCeilHalf((call.ret - 1) \div 2, c))

\* C1 witness: a lower non-wild face after an odd count (3 threes, then twos: 5)
C1_Witness ==
    /\ call.op = "Bid.min_next_count"
    /\ call.self = Bid(3, 3)
    /\ call.next_face = 2
    /\ call.ret = 5

\* the condition under which C2 says a bid is invalid
C2_Invalid(self, previous, single) ==
    \/ ~(1 <= self.face /\ self.face <= 6)
    \/ self.count <= 0
    \/ (previous = None /\ self.face = WILD_FACE_VAL /\ ~single)
    \/ (previous # None /\ previous.type # "Bid")
    \/ /\ previous.type = "Bid"
       /\ 1 <= self.face /\ self.face <= 6
       /\ self.count < min_next_count(previous, self.face)

\* C2: Bid.validate returns an InvalidAction exactly when the face is outside
\* 1..6, or the count is <= 0, or there is no previous action and the face is
\* wild and the round is not single-die, or the previous action is no bid, or
\* the count is below previous.min_next_count(face); otherwise it returns the
\* bid itself.
C2_BidValidate ==
    call.op = "Bid.validate" =>
        IF C2_Invalid(call.self, call.previous_action, call.is_single_die_round)
        THEN call.ret.type = "InvalidAction" /\ call.ret.attempted_action = call.self
        ELSE call.ret = call.self

\* C2 witness: a bid in range rejected only for its count after a previous bid
C2_Witness ==
    /\ call.op = "Bid.validate"
    /\ call.previous_action = Bid(3, 3)
    /\ call.self = Bid(2, 4)
    /\ call.ret.type = "InvalidAction"

\* C3: after a bid, Challenge.get_losers returns exactly [previous bidder]
\* when the matching dice are fewer than the bid's count and exactly [caller]
\* otherwise; wild dice match only outside single-die rounds and only a bid on
\* another face.
C3_ChallengeLosers ==
    (call.op = "EndAction.get_losers" /\ call.self = Challenge
        /\ call.previous_action.type = "Bid") =>
        IF Matching(call.previous_action, call.all_dice_counts,
                    call.is_single_die_round) < call.previous_action.count
        THEN call.ret = <<call.previous_player>>
        ELSE call.ret = <<call.caller>>

\* C3 witness: the bidder loses a challenge that the wild dice would have
\* defeated outside a single-die round
C3_Witness ==
    /\ call.op = "EndAction.get_losers" /\ call.self = Challenge
    /\ call.previous_action = Bid(3, 2)
    /\ call.is_single_die_round
    /\ call.all_dice_counts[3] = 1 /\ call.all_dice_counts[1] = 1
    /\ call.ret = <<call.previous_player>>

\* C4: after a bid, Exact.get_losers returns all of other_players (never the
\* caller) when the matching dice equal the bid's count, and exactly [caller]
\* otherwise, wild dice matching as for a challenge.
C4_ExactLosers ==
    (call.op = "EndAction.get_losers" /\ call.self = Exact
        /\ call.previous_action.type = "Bid") =>
        IF Matching(call.previous_action, call.all_dice_counts,
                    call.is_single_die_round) = call.previous_action.count
        THEN /\ call.ret = call.other_players
             /\ \A k \in DOMAIN call.ret : call.ret[k] # call.caller
        ELSE call.ret = <<call.caller>>

\* C4 witness: dice {1:1, 2:2} and the bid of 2 twos (the test suite's): exact
\* in a single-die round, where the same call outside one makes the caller lose
C4_Witness ==
    /\ call.op = "EndAction.get_losers" /\ call.self = Exact
    /\ call.previous_action = Bid(2, 2)
    /\ call.is_single_die_round
    /\ call.all_dice_counts[1] = 1 /\ call.all_dice_counts[2] = 2
    /\ call.ret = call.other_players
    /\ Len(call.ret) = MaxPlayers - 1
    /\ Exact_get_losers(call.previous_action, call.all_dice_counts, FALSE, call.caller, call.previous_player, call.other_players) = <<call.caller>>

\* C5: Challenge.validate and Exact.validate return an InvalidAction exactly
\* when there is no previous action, and the action itself after a previous
\* bid, whatever the single-die flag.
C5_EndActionValidate ==
    call.op = "EndAction.validate" =>
        /\ (call.ret.type = "InvalidAction" <=> call.previous_action = None)
        /\ (call.previous_action = None => call.ret.attempted_action = call.self)
        /\ (call.previous_action.type = "Bid" => call.ret = call.self)

\* C5 witness: an Exact that opens a single-die round is invalid
C5_Witness ==
    /\ call.op = "EndAction.validate"
    /\ call.self = Exact
    /\ call.previous_action = None
    /\ call.is_single_die_round
    /\ call.ret.type = "InvalidAction"

----------------------------------------------------------------------------
(* Properties of the game (checked under Spec) *)

\* the player whose turn made entry i (from 1) of a round's log
PlayerOfEntry(i) == (i - 1) % num_players

\* the rounds that have ended
ConcludedRounds == 1..Len(all_rounds_losers)

\* C6: whatever action a player returns, take_turn never raises; an action
\* that is illegal in its context is logged as an InvalidAction, ends the
\* round on that turn, and its player is the round's only loser.
C6_TakeTurnNeverRaises ==
    /\ pc # "raised"
    /\ \A r \in ConcludedRounds :
        LET log == all_rounds_actions[r]
        IN  \A i \in DOMAIN log :
                log[i].type = "InvalidAction" =>
                    /\ i = Len(log)
                    /\ all_rounds_losers[r] = <<PlayerOfEntry(i)>>

\* C7: a round's log stays aligned to the seats: when a player is about to
\* act the log's length mod num_players is cur_player_index, the action that
\* ended the game sits at the index of the player who made it, a NoOpDead
\* sits at the index of a player without dice, every other action that is no
\* NoOp at the index of a player with dice, and the NoOpFirstTurnSkips fill
\* exactly the indexes before the first actor.
C7_RoundAlignment ==
    /\ pc = "loop" => Len(current_round_actions) % num_players = cur_player_index
    /\ pc \in {"exit", "returned"} =>
            PlayerOfEntry(Len(current_round_actions)) = cur_player_index
    /\ \A r \in DOMAIN all_rounds_actions :
        LET log == all_rounds_actions[r]
        IN  \A i \in DOMAIN log :
                /\ log[i].type = "NoOpDead" =>
                        num_dice_by_player_history[r][PlayerOfEntry(i)] = 0
                /\ ~IsNoOp(log[i]) =>
                        num_dice_by_player_history[r][PlayerOfEntry(i)] > 0
                /\ log[i].type = "NoOpFirstTurnSkip" =>
                        /\ i < num_players
                        /\ \A j \in 1..i : log[j].type = "NoOpFirstTurnSkip"
                        /\ Len(log) > i => log[i + 1].type # "NoOpDead"

\* C7 witness: a round opened by the last seat of three, whose bid passed
\* over an eliminated player to the player now about to act
C7_Witness ==
    /\ pc = "loop"
    /\ num_players = 3
    /\ Len(current_round_actions) = 4
    /\ current_round_actions[2].type = "NoOpFirstTurnSkip"
    /\ current_round_actions[3].type = "Bid"
    /\ current_round_actions[4].type = "NoOpDead"
    /\ cur_player_index = 1

\* C8: what main_loop returns is the index of the only player who still has
\* dice.
C8_MainLoopReturnsWinner ==
    pc = "returned" =>
        \A p \in Players : (cur_num_dice[p] > 0) <=> (p = main_loop_result)

\* C9: each end_round appends one snapshot to the remaining-dice history, in
\* which every loser has exactly one die less than before (and never fewer
\* than 0) and every other player as many as before; so no count ever grows.
C9_LosersLoseOneDie ==
    /\ Len(num_dice_by_player_history) = Len(all_rounds_losers) + 1
    /\ \A r \in ConcludedRounds : \A p \in Players :
        /\ num_dice_by_player_history[r + 1][p] >= 0
        /\ num_dice_by_player_history[r + 1][p] =
                num_dice_by_player_history[r][p]
                - (IF p \in Range(all_rounds_losers[r]) THEN 1 ELSE 0)
        /\ \A q \in 1..r :
                num_dice_by_player_history[r + 1][p] <= num_dice_by_player_history[q][p]

\* C9 witness: two rounds have ended and one player lost a die in each,
\* going from two dice to none
C9_Witness ==
    /\ Len(all_rounds_losers) = 2
    /\ Len(num_dice_by_player_history) = 3
    /\ \E p \in Players :
        /\ p \in Range(all_rounds_losers[1]) /\ p \in Range(all_rounds_losers[2])
        /\ num_dice_by_player_history[1][p] = 2
        /\ num_dice_by_player_history[2][p] = 1
        /\ num_dice_by_player_history[3][p] = 0

Opener(r) ==
    Cardinality({i \in DOMAIN all_rounds_actions[r] :
                    all_rounds_actions[r][i].type = "NoOpFirstTurnSkip"})

\* the seat whose action ended round r
LastActor(r) == PlayerOfEntry(Len(all_rounds_actions[r]))

\* the losers of round r who still hold dice after it
LosersLeftWithDice(r) ==
    {p \in Range(all_rounds_losers[r]) : num_dice_by_player_history[r + 1][p] > 0}

\* the first seat after cur, in seat order, that holds dice in snapshot
NextSeatWithDice(snapshot, cur) ==
    LET n == Cardinality(DOMAIN snapshot)
        k == CHOOSE k \in 1..n :
                /\ snapshot[(cur + k) % n] > 0
                /\ \A j \in 1..(k - 1) : snapshot[(cur + j) % n] = 0
    IN  (cur + k) % n

----------------------------------------------------------------------------
(* Properties of single-die rounds *)

\* C13: every round flagged single-die is opened by a player who holds
\* exactly one die.
C13_SingleDieOpenerHasOneDie ==
    \A r \in DOMAIN single_die_round_history :
        (single_die_round_history[r] /\ r <= Len(all_rounds_actions)) =>
            num_dice_by_player_history[r][Opener(r)] = 1

\* C14: in a round flagged single-die the bids the log holds as valid Bids
\* are all on one face: a Bid on another face than the bid before it is
\* logged as an InvalidAction, never as a Bid.
C14_SingleDieBidsOneFace ==
    \A r \in DOMAIN all_rounds_actions :
        single_die_round_history[r] =>
            \A i, j \in DOMAIN all_rounds_actions[r] :
                (all_rounds_actions[r][i].type = "Bid"
                    /\ all_rounds_actions[r][j].type = "Bid") =>
                        all_rounds_actions[r][i].face = all_rounds_actions[r][j].face

----------------------------------------------------------------------------
(* Properties of the observation *)

\* C15: when a player is about to act, the observation's dice_reveal_history
\* holds exactly the dice of the concluded rounds, one entry for each, and
\* the observation is the same whatever dice the current round has rolled.
C15_ObservationHidesCurrentDice ==
    pc = "loop" =>
        /\ Len(observation(all_rounds_dice_counts).dice_reveal_history)
                = Len(all_rounds_losers)
        /\ \A r \in ConcludedRounds :
                observation(all_rounds_dice_counts).dice_reveal_history[r]
                    = all_rounds_dice_counts[r]
        /\ \A dice \in RolledDice(cur_num_dice) :
                observation([all_rounds_dice_counts
                                EXCEPT ![Len(all_rounds_dice_counts)] = dice])
                    = observation(all_rounds_dice_counts)

\* C15 witness: a player is about to act in the second round, whose dice
\* differ from the first round's, and the observation reveals the first
\* round's dice only
C15_Witness ==
    /\ pc = "loop"
    /\ Len(all_rounds_dice_counts) = 2
    /\ all_rounds_dice_counts[2] # all_rounds_dice_counts[1]
    /\ observation(all_rounds_dice_counts).dice_reveal_history
            = <<all_rounds_dice_counts[1]>>

----------------------------------------------------------------------------
(* Properties of the envelope *)

\* the calls of from_bytes before call j that returned an envelope with the
\* sender key and salt of message
AcceptedBefore(j, message) ==
    {i \in 1..(j - 1) :
        /\ ~Raised(received[i].ret)
        /\ received[i].ret.public_key = message.public_key
        /\ received[i].ret.salt = message.salt}

\* whether json_str is a JSON text with the six entries of an envelope, its
\* salt, public_key and signature in hex
WellFormed(json_str) ==
    /\ {"salt", "public_key", "type", "data", "signature", "version"} \subseteq DOMAIN json_str
    /\ is_hex(json_str.salt) /\ is_hex(json_str.public_key) /\ is_hex(json_str.signature)

\* whether json_str names the sender key and the salt of message
SamePair(json_str, message) ==
    /\ {"salt", "public_key"} \subseteq DOMAIN json_str
    /\ is_hex(json_str.salt) /\ is_hex(json_str.public_key)
    /\ json_str.public_key.hex = message.public_key
    /\ json_str.salt.hex = message.salt

\* whether the signature json_str carries was made by the key it names over
\* the salt, key, type and data it carries
SignatureCoversEntries(json_str) ==
    /\ WellFormed(json_str)
    /\ "signer" \in DOMAIN json_str.signature.hex
    /\ json_str.signature.hex.signer = json_str.public_key.hex
    /\ json_str.signature.hex.signed =
            <<json_str.salt.hex, json_str.public_key.hex, json_str.type, json_str.data>>

\* whether call j of from_bytes raised ConstructionError
Rejected(j) ==
    /\ Raised(received[j].ret)
    /\ received[j].ret.raise = "ConstructionError"

\* C16: once from_bytes has returned an envelope, every later call of
\* from_bytes on a text that names the same sender key and salt raises
\* ConstructionError, whatever was parsed in between; the pair of every
\* envelope returned is in RECEIVED_SALTS.
C16_ReplayRejected ==
    /\ \A i, j \in DOMAIN received :
        (i < j /\ ~Raised(received[i].ret)
               /\ SamePair(received[j].json_str, received[i].ret)) => Rejected(j)
    /\ \A i \in DOMAIN received :
        ~Raised(received[i].ret) =>
            /\ received[i].ret.public_key \in DOMAIN RECEIVED_SALTS
            /\ received[i].ret.salt \in RECEIVED_SALTS[received[i].ret.public_key]

\* C16 witness: an envelope was accepted, then one with another sender key or
\* salt, then the first came again, its hex digits in upper case, and was
\* rejected
C16_Witness ==
    /\ Len(received) = 3
    /\ ~Raised(received[1].ret)
    /\ ~Raised(received[2].ret)
    /\ <<received[2].ret.public_key, received[2].ret.salt>>
            # <<received[1].ret.public_key, received[1].ret.salt>>
    /\ SamePair(received[3].json_str, received[1].ret)
    /\ received[3].json_str.salt.upper
    /\ SignatureCoversEntries(received[3].json_str)
    /\ Rejected(3)

\* C17: from_bytes returns an envelope only if the signature was made by the
\* named key over exactly the salt, key, type and data received, and
\* DataType.from_json is called only in that case.
C17_FailsClosedOnBadSignature ==
    \A j \in DOMAIN received :
        /\ ~SignatureCoversEntries(received[j].json_str) =>
                /\ Rejected(j)
                /\ ~received[j].decoded
        /\ (~Raised(received[j].ret) \/ received[j].decoded) =>
                SignatureCoversEntries(received[j].json_str)

\* C17 witness: a text with the data of another record than the one signed,
\* of the same registered type, its sender key and salt new, was rejected
\* before DataType.from_json was called
C17_Witness ==
    \E j \in DOMAIN received :
        /\ WellFormed(received[j].json_str)
        /\ received[j].json_str.type \in TYPE_NAME_TO_TYPE_D
        /\ received[j].json_str.version = VERSION
        /\ "signer" \in DOMAIN received[j].json_str.signature.hex
        /\ received[j].json_str.signature.hex.signer = received[j].json_str.public_key.hex
        /\ received[j].json_str.signature.hex.signed[3] = received[j].json_str.type
        /\ received[j].json_str.signature.hex.signed[4] # received[j].json_str.data
        /\ \A i \in 1..(j - 1) : Raised(received[i].ret)
        /\ Rejected(j)
        /\ received[j].ret.cause = Exception("InvalidSignature")
        /\ ~received[j].decoded

\* C18: no two envelopes from_data has returned carry the same salt.
C18_FreshSalt ==
    \A i, j \in DOMAIN sent :
        (i < j /\ ~Raised(sent[i]) /\ ~Raised(sent[j])) => sent[i].salt # sent[j].salt

\* C19: when from_bytes parses the to_bytes text of an envelope from_data
\* built of a record of a registered type (and no envelope of that sender
\* and salt was accepted before), it returns an envelope whose data is the
\* record.
C19_EnvelopeRoundTrip ==
    \A message \in SentEnvelopes : \A j \in DOMAIN received :
        (received[j].json_str = to_bytes(message) /\ AcceptedBefore(j, message) = {}) =>
            /\ ~Raised(received[j].ret)
            /\ received[j].ret.data = message.data

\* whether call j of from_bytes got an envelope whose type is not registered
\* (and whose sender key and salt were not accepted before)
UnknownType(j) ==
    /\ WellFormed(received[j].json_str)
    /\ received[j].json_str.type \notin TYPE_NAME_TO_TYPE_D
    /\ \A i \in 1..(j - 1) :
        ~Raised(received[i].ret) => ~SamePair(received[j].json_str, received[i].ret)

\* C20: from_bytes rejects an envelope whose type is not registered, and what
\* it raises then (the exception and the exception it was raised from)
\* differs from what it raises for every rejected text whose type is
\* registered or missing.
C20_UnknownTypeDistinctError ==
    \A i, j \in DOMAIN received :
        (UnknownType(i) /\ ~UnknownType(j) /\ Raised(received[j].ret)
            /\ ("type" \in DOMAIN received[j].json_str =>
                    received[j].json_str.type \in TYPE_NAME_TO_TYPE_D)) =>
                /\ Raised(received[i].ret)
                /\ received[i].ret # received[j].ret

----------------------------------------------------------------------------
(* Properties of the framed transport (checked under SpecConnection) *)

\* whether a text off the wire is an envelope signed with public_key: its
\* signature was made by that key, which it names, over its own entries
SignedWith(text, public_key) ==
    /\ SignatureCoversEntries(text)
    /\ text.public_key.hex = public_key

\* whether ret is a Corrupted record returned
IsCorrupted(ret) ==
    /\ ~Raised(ret)
    /\ ret.class = "Corrupted"

\* whether the last call was a handshake
IsHandshake == net_call.op \in {"from_handshake_server_side", "from_handshake_client_side"}

\* C21: the key a handshake binds to the Connection is the key that signed
\* the peer's handshake message; no later call changes it; and receive_obj,
\* given anything but an envelope signed with that key, returns a Corrupted
\* record and leaves the connection closing.
C21_PeerKeyBound ==
    /\ (IsHandshake /\ ~Raised(net_call.ret)) =>
            /\ SignedWith(net_call.args.wrapped.text, net_call.ret._target_public_key)
            /\ connections[net_call.ret.name]._target_public_key = net_call.ret._target_public_key
    /\ net_call.op \in {"receive_obj", "send_obj", "close"} =>
            connections[net_call.self.name]._target_public_key
                = net_call.self._target_public_key
    /\ net_call.op = "receive_obj" =>
            (~(/\ net_call.args.yields = "frame"
               /\ SignedWith(net_call.args.wrapped.text, net_call.self._target_public_key)) =>
                    /\ IsCorrupted(net_call.ret)
                    /\ is_closing(connections[net_call.self.name]))

\* C21 witness: a connection that was open got a frame no longer than the
\* maximum with an envelope of a registered type and the right version,
\* whose sender and salt were new and whose signature verified, from a key
\* other than the peer's; receive_obj returned the Corrupted record of a key
\* mismatch and closed the connection
C21_Witness ==
    /\ net_call.op = "receive_obj"
    /\ ~is_closing(net_call.self)
    /\ net_call.args.yields = "frame"
    /\ SignatureCoversEntries(net_call.args.wrapped.text)
    /\ net_call.args.wrapped.text.public_key.hex # net_call.self._target_public_key
    /\ net_call.ret = CorruptedRecord("Public key mismatch")
    /\ is_closing(connections[net_call.self.name])

\* whether reading incoming fails: the stream ends early, the prefix is
\* above the maximum, the text is no envelope signed over its entries, its
\* type is not registered, its version is another, or its sender and salt
\* were accepted before
ReadFailure(incoming, received_salts) ==
    \/ incoming.yields # "frame"
    \/ unpack(incoming.len_bytes) > MAX_MESSAGE_LEN
    \/ ~SignatureCoversEntries(incoming.wrapped.text)
    \/ incoming.wrapped.text.type \notin TYPE_NAME_TO_TYPE_D
    \/ incoming.wrapped.text.version # VERSION
    \/ /\ incoming.wrapped.text.public_key.hex \in DOMAIN received_salts
       /\ incoming.wrapped.text.salt.hex
            \in received_salts[incoming.wrapped.text.public_key.hex]

\* C22: receive_obj raises nothing, and when the read fails it returns a
\* Corrupted record and leaves the connection closing.
C22_ReceiveObjNeverRaises ==
    net_call.op = "receive_obj" =>
        /\ ~Raised(net_call.ret)
        /\ ReadFailure(net_call.args, net_call.received_salts) =>
                /\ IsCorrupted(net_call.ret)
                /\ is_closing(connections[net_call.self.name])

\* C22 witness: a connection that was open got, in a frame of the greatest
\* length allowed, an envelope signed by its peer whose sender and salt had
\* been accepted before; receive_obj returned a Corrupted record and closed
\* the connection
C22_Witness ==
    /\ net_call.op = "receive_obj"
    /\ ~is_closing(net_call.self)
    /\ net_call.args.yields = "frame"
    /\ unpack(net_call.args.len_bytes) = MAX_MESSAGE_LEN
    /\ SignedWith(net_call.args.wrapped.text, net_call.self._target_public_key)
    /\ net_call.args.wrapped.text.type \in TYPE_NAME_TO_TYPE_D
    /\ net_call.args.wrapped.text.version = VERSION
    /\ ReadFailure(net_call.args, net_call.received_salts)
    /\ net_call.ret = CorruptedRecord("Receive failed")
    /\ is_closing(connections[net_call.self.name])

\* whether every frame written to writer is a body no longer than
\* MAX_MESSAGE_LEN after the four bytes of its length
FramesWithinLimit(writer) ==
    \A i \in DOMAIN writer.written :
        /\ writer.written[i][2].len <= MAX_MESSAGE_LEN
        /\ writer.written[i][1] = pack(writer.written[i][2].len)
        /\ Len(writer.written[i][1]) = LEN_PREFIX_LEN

\* C23: every frame written is within the limit; send_obj of an envelope
\* longer than MAX_MESSAGE_LEN writes nothing and leaves the connection
\* closing; a prefix above MAX_MESSAGE_LEN is rejected with no body read.
C23_NoOversizeFrame ==
    /\ \A name \in DOMAIN connections : FramesWithinLimit(connections[name]._writer)
    /\ (IsHandshake \/ net_call.op \in {"receive_obj", "send_obj"}) =>
            FramesWithinLimit(net_call._writer)
    /\ (net_call.op = "send_obj" /\ ~Raised(net_call.ret)
            /\ net_call.args.wrapped_len > MAX_MESSAGE_LEN) =>
                /\ net_call._writer.written = net_call.self._writer.written
                /\ is_closing(connections[net_call.self.name])
    /\ ((IsHandshake \/ net_call.op = "receive_obj")
            /\ net_call.args.yields # "nothing"
            /\ unpack(net_call.args.len_bytes) > MAX_MESSAGE_LEN) =>
                /\ ~net_call.body_read
                /\ IsHandshake => Raised(net_call.ret)
                /\ net_call.op = "receive_obj" => IsCorrupted(net_call.ret)

\* C23 witness: send_obj of a record of a registered type whose envelope is
\* one byte longer than MAX_MESSAGE_LEN, on a connection that was open and
\* whose drain would have succeeded: nothing written, the connection closing
C23_Witness ==
    /\ net_call.op = "send_obj"
    /\ ~Raised(net_call.ret)
    /\ ~is_closing(net_call.self)
    /\ net_call.args.wrapped_len = MAX_MESSAGE_LEN + 1
    /\ net_call.args.drained = "ok"
    /\ net_call._writer.written = net_call.self._writer.written
    /\ is_closing(connections[net_call.self.name])

----------------------------------------------------------------------------
(* Properties of the rooms of the server (checked under SpecServer) *)

\* message is a CreateRoom that breaks a rule of the validation
FailsValidation(message) ==
    /\ message.class = "CreateRoom"
    /\ \/ message.fields.num_network_players.int < 1
       \/ message.fields.num_random_players.int < 0
       \/ message.fields.num_probabilistic_players.int < 0
       \/ message.fields.num_network_players.int + message.fields.num_random_players.int
            + message.fields.num_probabilistic_players.int > max_players_per_game
       \/ message.fields.num_network_players.int + message.fields.num_random_players.int
            + message.fields.num_probabilistic_players.int < 2

\* an Error record was written to the connection
ErrorWritten(connection) ==
    \E i \in DOMAIN connection._writer.written :
        connection._writer.written[i][2].text.type = "Error"

\* the client that sent a CreateRoom failing the validation was sent an Error
\* and its connection is closed
InvalidCreateAnswered ==
    \A socket \in DOMAIN tasks :
        FailsValidation(tasks[socket].message) =>
            /\ ErrorWritten(connections[socket])
            /\ is_closing(connections[socket])

\* C25: a CreateRoom whose numbers fail the validation is answered with an
\* Error record, its connection is closed, and no room is registered for it:
\* the registry holds no room made by its handler.
C25_InvalidCreateRegistersNothing ==
    /\ InvalidCreateAnswered
    /\ \A socket \in DOMAIN tasks :
        FailsValidation(tasks[socket].message) =>
            \A room_name \in DOMAIN rooms : rooms[room_name] # socket

\* the GameManager objects: those of the registry and those no longer in it
GameManagers == {socket \in DOMAIN tasks : "room" \in DOMAIN tasks[socket]}

\* the rooms made for a CreateRoom that passes the validation hold no more
\* players than their capacity
ValidRoomsWithinCapacity ==
    \A socket \in GameManagers :
        ~FailsValidation(tasks[socket].message) =>
            Len(tasks[socket].room.players) <= tasks[socket].room.num_players

\* a step that handles a JoinRoom either appends the client to one room that
\* had room for it, a room with space anyhow if it named none, or changes no
\* list of players, sends the client an Error and closes its connection
JoinPlacedOrRejected ==
    \A socket \in DOMAIN tasks' \ DOMAIN tasks :
        tasks'[socket].message.class = "JoinRoom" =>
            IF tasks'[socket].joined = "None"
            THEN /\ \A owner \in GameManagers : tasks'[owner] = tasks[owner]
                 /\ ErrorWritten(connections'[socket])
                 /\ is_closing(connections'[socket])
            ELSE LET owner == tasks'[socket].joined
                 IN  /\ Len(tasks[owner].room.players) < tasks[owner].room.num_players
                     /\ tasks'[owner].room.players =
                            Append(tasks[owner].room.players,
                                   RemotePlayer(ClientName(socket), socket))
                     /\ \A other \in GameManagers \ {owner} : tasks'[other] = tasks[other]
                     /\ \E room_name \in DOMAIN rooms : rooms[room_name] = owner
                     /\ tasks'[socket].message.fields.room_name.py = "str" =>
                            rooms[tasks'[socket].message.fields.room_name.str] = owner

JoinsPlacedOrRejected == [][JoinPlacedOrRejected]_vars

\* C27: however the handlers of joining clients interleave, no room of the
\* registry holds more players than its capacity (num_players).
C27_RoomWithinCapacity ==
    \A room_name \in DOMAIN rooms :
        Len(game_manager(room_name).players) <= game_manager(room_name).num_players

\* the manager of the room made by the handler of socket has started a game
Started(socket) ==
    /\ socket \in GameManagers
    /\ "players" \in DOMAIN tasks[socket].started

\* the room made by the handler of socket waits for players and none of its
\* remote players is connected
Deserted(socket) ==
    /\ socket \in GameManagers
    /\ tasks[socket].pc = "_wait_until_full"
    /\ \A i \in DOMAIN tasks[socket].room.players :
        tasks[socket].room.players[i].class = "RemotePlayer" =>
            connections[tasks[socket].room.players[i].connection]._writer.closing

\* when the game of a room was started the room held as many players as its
\* capacity, two at least of them bots or connected, one at least connected
StartedFull ==
    \A socket \in DOMAIN Handshaken :
        Started(socket) =>
            LET players == tasks[socket].started.players
                open == {i \in DOMAIN players :
                            /\ players[i].class = "RemotePlayer"
                            /\ ~tasks[socket].started.connections[players[i].connection]._writer.closing}
                local == {i \in DOMAIN players : players[i].class # "RemotePlayer"}
            IN  /\ Len(players) = tasks[socket].room.num_players
                /\ Cardinality(open \cup local) >= 2
                /\ open # {}

\* C28: a game is started for a room only when the room holds as many
\* players as its capacity, at least two of them active and at least one a
\* connected remote player; and a room that, while it waited for players,
\* had none of its remote players connected has no game started for it,
\* then or later.
C28_StartedOnlyWhenFull ==
    /\ StartedFull
    /\ \A socket \in DOMAIN Handshaken :
        /\ Deserted(socket) => tasks[socket].deserted
        /\ Started(socket) => ~tasks[socket].deserted

\* a game was started for one room, and another, which waited for players
\* when its only remote player went away, has returned from start_manager
C28_Witness ==
    /\ \E socket \in DOMAIN Handshaken : Started(socket)
    /\ \E socket \in GameManagers :
        /\ tasks[socket].deserted
        /\ tasks[socket].pc = "done"

\* the game of a room was started after a ping of each of its players had
\* been gathered
PingedBeforeStart ==
    \A socket \in DOMAIN Handshaken :
        Started(socket) =>
            /\ "list" \in DOMAIN tasks[socket].connection_statuses
            /\ Len(tasks[socket].connection_statuses.list) = Len(tasks[socket].started.players)

\* the pings of a room that has filled are answered true or false
PingsAnswered ==
    \A socket \in GameManagers : ~Raised(tasks[socket].connection_statuses)

\* C29: every remote player of a room is pinged once the room is full and
\* before its game is started, and a ping tells whether the player is still
\* there, so that the room can drop the player and wait again.
C29_PingedBeforeStart ==
    /\ PingedBeforeStart
    /\ PingsAnswered

----------------------------------------------------------------------------
(* Properties of the methods called directly (checked under SpecCalls) *)

\* C26: check_for_errors(max) returns a message exactly when the request
\* asks for no network player, for a negative number of random or of
\* probabilistic players, for more players in all than max, or for fewer
\* than two; otherwise it returns None.
C26_CheckForErrors ==
    net_call.op = "CreateRoom.check_for_errors" =>
        LET network == net_call.self.fields.num_network_players.int
            random == net_call.self.fields.num_random_players.int
            probabilistic == net_call.self.fields.num_probabilistic_players.int
            fails ==
                \/ network <= 0
                \/ random < 0
                \/ probabilistic < 0
                \/ network + random + probabilistic > net_call.max_num_players
                \/ network + random + probabilistic < 2
        IN  /\ fails => net_call.ret.py = "str"
            /\ ~fails => net_call.ret.py = "NoneType"

\* a request for one network player and no bot, within the maximum, is
\* refused for its total alone
C26_Witness ==
    /\ net_call.op = "CreateRoom.check_for_errors"
    /\ net_call.self = CreateRoom("r", 1, 0, 0)
    /\ net_call.max_num_players = 2
    /\ net_call.ret = PyStr("Must have at least two players")

\* the body of get_action, entered with the parameters it declares, returns
\* an action whatever the transport does, and an InvalidAction when a wait
\* of _async_do times out or no frame is read
GetActionBodyReturnsAction ==
    (net_call.op = "RemotePlayer.get_action" /\ DOMAIN net_call.kwargs = get_action_parameters)
        => /\ ~Raised(net_call.ret)
           /\ net_call.ret.class \in Subclasses("Action")
           /\ (~net_call.sent_in_time \/ ~net_call.received_in_time
               \/ net_call.incoming.yields # "frame")
                => net_call.ret.class = "InvalidAction"

\* C24: a call of get_action on a RemotePlayer by the engine never raises: it
\* returns an action, and an InvalidAction when the request is not sent, the
\* reply does not come in time, the connection is gone or the reply is no
\* Action.
C24_GetActionNeverRaises ==
    net_call.op = "RemotePlayer.get_action" =>
        /\ ~Raised(net_call.ret)
        /\ net_call.ret.class \in Subclasses("Action")

\* the writer of the connection holds a frame of that type which from_bytes
\* accepts as signed by the key of the server
Delivered(connection, type_name) ==
    \E i \in DOMAIN connection._writer.written :
        LET wrapped == connection._writer.written[i][2].text
        IN  /\ wrapped.type = type_name
            /\ ~Raised(from_bytes(wrapped, <<>>).ret)
            /\ from_bytes(wrapped, <<>>).ret.public_key = public_key_of(connection._self_private_key)

\* the call found every connection open, every drain ended well and every
\* wait of _async_do ended in time
TransportHealthy ==
    \A socket \in DOMAIN net_call.connections :
        /\ ~is_closing(net_call.connections[socket])
        /\ net_call.drained[socket] = "ok"
        /\ net_call.in_time[socket]

\* every remote player of the call holds a frame of that type
DeliveredToRemotePlayers(type_name) ==
    /\ ~Raised(net_call.ret)
    /\ \A i \in DOMAIN net_call.players :
        net_call.players[i].class = "RemotePlayer" =>
            Delivered(connections[net_call.players[i].connection], type_name)

\* at the end of a round every remote player is sent the RoundSummary, the
\* transport being healthy
RoundSummarySent ==
    (net_call.op = "react_to_round_summary" /\ TransportHealthy)
        => DeliveredToRemotePlayers("RoundSummary")

\* a remote player whose send is not done in time ends the loop of end_round
\* with TimeoutError: the players after it are sent nothing
RoundSummaryLoopEndsAtTimeout ==
    (/\ net_call.op = "react_to_round_summary"
     /\ net_call.players[1].class = "RemotePlayer"
     /\ ~net_call.in_time[net_call.players[1].connection])
        => /\ Raised(net_call.ret)
           /\ connections[net_call.players[2].connection]
                = net_call.connections[net_call.players[2].connection]

\* C30: at the end of every round a RoundSummary, and at the end of the game
\* a GameSummary, is sent as a signed message to every remote player of the
\* room.
C30_SummariesSentToRemotePlayers ==
    /\ (net_call.op = "react_to_round_summary" /\ TransportHealthy)
        => DeliveredToRemotePlayers("RoundSummary")
    /\ (net_call.op = "_broadcast_winner_cb" /\ TransportHealthy)
        => DeliveredToRemotePlayers("GameSummary")

\* set_dice returns None whatever happens to the message: a constructor that
\* raises, a closed connection, a drain that fails, a wait that times out
SetDiceNeverRaises ==
    net_call.op = "RemotePlayer.set_dice" => net_call.ret = PyNone

\* the SetDice built of a Counter is written while the transport is healthy;
\* the DiceCounts start_new_round passes is no Counter, so nothing is written
SetDiceSendsCounters ==
    (/\ net_call.op = "RemotePlayer.set_dice"
     /\ ~is_closing(net_call.self) /\ net_call.drained = "ok" /\ net_call.in_time)
        => ((\E i \in DOMAIN connections["c1"]._writer.written :
                connections["c1"]._writer.written[i][2].text.type = "SetDice")
            <=> net_call.dice.py = "Counter")

\* C31: no call the engine makes to hand dice, a round summary or the game
\* summary to its players ends with the TimeoutError of a wait that was not
\* done in time.
C31_TimeoutsNeverRaiseIntoEngine ==
    net_call.op \in {"RemotePlayer.set_dice", "react_to_round_summary", "_broadcast_winner_cb"}
        => ~(Raised(net_call.ret) /\ net_call.ret = Raise("TimeoutError"))

----------------------------------------------------------------------------
(* Properties of the rooms whose game has ended (checked under SpecServer). *)

\* the coroutines of the creators of rooms whose game was started and has
\* ended: start_manager has returned after the thread of the game
GamesEnded ==
    {socket \in DOMAIN tasks :
        /\ "started" \in DOMAIN tasks[socket]
        /\ tasks[socket].pc = "done"
        /\ tasks[socket].started # PyNone}

\* a handler that has added its client to a room never returns from
\* _handle_join_room, whether the game of the room has ended or not
JoinedHandlersNeverReturn ==
    \A socket \in DOMAIN tasks :
        ("joined" \in DOMAIN tasks[socket] /\ tasks[socket].joined # "None")
            => tasks[socket].pc = "room.is_alive"

\* C36: once the game of a room has ended, the room is not alive any more,
\* which is what would let the handlers that wait in _handle_join_room for
\* the game to end return and their connections be closed.
C36_RoomNotAliveAfterGame ==
    \A socket \in GamesEnded : ~tasks[socket].room.is_alive

----------------------------------------------------------------------------
(* Properties of the requests of the engine to remote players (checked     *)
(* under SpecRequests).                                                    *)

\* no connection ever has two receive_obj coroutines on the loop, and a call
\* of get_action whose arguments are those take_turn passes writes nothing
\* and starts no read
OnePendingReadAtMost ==
    /\ \A socket \in DOMAIN Handshaken :
        net_call.op = "RemotePlayer.get_action" => Cardinality(pending_reads(socket)) <= 1
    /\ (net_call.op = "RemotePlayer.get_action" /\ "observation" \in DOMAIN net_call.kwargs)
        => (~net_call.request_written /\ ~net_call.read_started)

\* C32: get_action writes no ActionRequest and starts no read on a connection
\* while a read of an earlier request of that connection is still on the
\* loop.
C32_NeverPipelined ==
    (net_call.op = "RemotePlayer.get_action" /\ net_call.pending > 0)
        => (~net_call.request_written /\ ~net_call.read_started)

----------------------------------------------------------------------------
(* Properties of the rounds of a game run by main_loop (checked under Spec). *)

\* C33: when a turn begins the most recent action of the current round that
\* is no NoOp is absent or a Bid, so the assertion of
\* get_most_recent_non_noop_action does not fail; in every round's log an
\* action that is neither a NoOp nor a Bid is the last entry, so no bid is
\* validated against a previous action that is no Bid.
C33_PreviousActionIsBid ==
    /\ pc = "loop" =>
        get_most_recent_non_noop_action(current_round_actions).type \in {"None", "Bid"}
    /\ \A r \in DOMAIN all_rounds_actions :
        \A i \in DOMAIN all_rounds_actions[r] :
            (~IsNoOp(all_rounds_actions[r][i]) /\ ~IsBid(all_rounds_actions[r][i]))
                => i = Len(all_rounds_actions[r])

\* C33 witness: a turn begins after a bid in a round that follows a round
\* ended by a Challenge or an Exact
C33_Witness ==
    /\ pc = "loop"
    /\ Len(all_rounds_actions) >= 2
    /\ Last(all_rounds_actions[Len(all_rounds_actions) - 1]).type \in {"Challenge", "Exact"}
    /\ get_most_recent_non_noop_action(current_round_actions).type = "Bid"

\* the position in a round's log of its most recent Bid, 0 when it has none
LastBidIndex(round_actions) ==
    LET RECURSIVE Scan(_)
        Scan(k) ==
            IF k = 0 THEN 0
            ELSE IF IsBid(round_actions[k]) THEN k
            ELSE Scan(k - 1)
    IN  Scan(Len(round_actions))

\* C40: when a turn begins after a bid, the previous living player in seat
\* order, which take_turn hands to get_losers as previous_player when the
\* turn's action is a Challenge or an Exact, is the player whose turn logged
\* the most recent bid of the round.
C40_PreviousPlayerMadeLastBid ==
    (pc = "loop" /\ LastBidIndex(current_round_actions) > 0) =>
        get_previous_living_player_index(cur_num_dice, cur_player_index)
            = PlayerOfEntry(LastBidIndex(current_round_actions))

\* C40 witness: three players, the round was opened by another seat than 0,
\* and a turn begins after a bid with a dead seat between the bidder and the
\* current player
C40_Witness ==
    /\ pc = "loop"
    /\ num_players = 3
    /\ LastBidIndex(current_round_actions) > 0
    /\ current_round_actions[1].type = "NoOpFirstTurnSkip"
    /\ Last(current_round_actions).type = "NoOpDead"
    /\ cur_num_dice[(cur_player_index - 1) % num_players] = 0

C39_DeadPlayersTakeNoPart ==
    /\ pc = "loop" => cur_num_dice[cur_player_index] >= 1
    /\ \A r \in DOMAIN all_rounds_actions :
        \A i \in DOMAIN all_rounds_actions[r] :
            ~IsNoOp(all_rounds_actions[r][i])
                => num_dice_by_player_history[r][PlayerOfEntry(i)] >= 1
    /\ \A r \in ConcludedRounds :
        /\ \A k \in DOMAIN all_rounds_losers[r] :
                num_dice_by_player_history[r][all_rounds_losers[r][k]] >= 1
        /\ Cardinality(Range(all_rounds_losers[r])) = Len(all_rounds_losers[r])
    /\ pc = "raised" =>
        /\ cur_num_dice[cur_player_index] >= 1
        /\ Len(all_rounds_actions) = Len(all_rounds_losers) + 1

\* C39 witness: a round lost by a player who held one die has ended, the game
\* went on, and in the new round a turn has passed over the dead player
C39_Witness ==
    /\ pc = "loop"
    /\ Len(all_rounds_losers) >= 1
    /\ \E p \in Range(Last(all_rounds_losers)) :
        /\ cur_num_dice[p] = 0
        /\ num_dice_by_player_history[Len(all_rounds_losers)][p] = 1
    /\ \E i \in DOMAIN current_round_actions :
        current_round_actions[i].type = "NoOpDead"

----------------------------------------------------------------------------
(* Properties of the methods of perudo_game.py called directly (checked    *)
(* under SpecCalls).                                                        *)

\* the players other than cur who hold dice in the snapshot
OthersAlive(snapshot, cur) == {p \in DOMAIN snapshot : p # cur /\ snapshot[p] > 0}

\* while another player holds dice, both lookups return the nearest such
\* player in their direction; they raise when nobody at all holds dice
LivingPlayerIndexOfOthers ==
    net_call.op = "living_player_index" =>
        LET snapshot == net_call.snapshot
            cur == net_call.cur
            n == Cardinality(DOMAIN snapshot)
        IN  /\ OthersAlive(snapshot, cur) # {} =>
                /\ net_call.previous \in OthersAlive(snapshot, cur)
                /\ net_call.next \in OthersAlive(snapshot, cur)
                /\ \A p \in OthersAlive(snapshot, cur) :
                    /\ (cur - net_call.previous) % n <= (cur - p) % n
                    /\ (net_call.next - cur) % n <= (p - cur) % n
            /\ (\A p \in DOMAIN snapshot : snapshot[p] = 0) =>
                /\ net_call.previous = NoLivingPlayer
                /\ net_call.next = NoLivingPlayer

\* C34: get_next_living_player_index and get_previous_living_player_index
\* raise whenever no player other than the current one holds dice, and never
\* return the index of the current player.
C34_LivingPlayerIndexRaises ==
    net_call.op = "living_player_index" =>
        /\ net_call.previous # net_call.cur
        /\ net_call.next # net_call.cur
        /\ OthersAlive(net_call.snapshot, net_call.cur) = {} =>
            /\ net_call.previous = NoLivingPlayer
            /\ net_call.next = NoLivingPlayer

----------------------------------------------------------------------------
(* Properties of start_new_round called directly (checked under SpecRound). *)

\* the call of start_new_round has returned or raised
StartNewRoundCalled == call.op = "start_new_round" /\ pc # "start"

\* C35: start_new_round(i, s) raises and leaves the game as it was when i is
\* out of range or player i holds no dice; otherwise it returns with
\* cur_player_index = i, the single-die flag = s, a new round log of exactly i
\* NoOpFirstTurnSkip entries, and for every player a DiceCounts whose total is
\* the player's number of remaining dice, which the player was handed.
C35_StartNewRound ==
    StartNewRoundCalled =>
        LET i == call.first_player_index
            before == call.num_dice_by_player_history
        IN  /\ num_dice_by_player_history = before
            /\ all_rounds_losers = <<>>
            /\ IF ~(0 <= i /\ i < num_players) \/ before[1][i] < 1
               THEN /\ pc = "raised"
                    /\ cur_player_index = -1
                    /\ cur_round_single_die = FALSE
                    /\ all_rounds_actions = <<>>
                    /\ all_rounds_dice_counts = <<>>
                    /\ single_die_round_history = <<>>
                    /\ \A p \in Players : player_dice_counts[p] = DiceCounts_from_empty
               ELSE /\ pc = "loop"
                    /\ cur_player_index = i
                    /\ cur_round_single_die = call.single_die_round
                    /\ single_die_round_history = <<call.single_die_round>>
                    /\ Len(all_rounds_actions) = 1
                    /\ Len(current_round_actions) = i
                    /\ \A k \in 1..i : current_round_actions[k] = NoOpFirstTurnSkip
                    /\ Len(all_rounds_dice_counts) = 1
                    /\ \A p \in Players :
                        /\ DiceCounts_get_num_dice(current_round_dice_by_player[p])
                                = before[1][p]
                        /\ player_dice_counts[p] = current_round_dice_by_player[p]

\* C35 witness: a single-die round opened by the last of three players while
\* another player is eliminated
C35_Witness ==
    /\ StartNewRoundCalled
    /\ pc = "loop"
    /\ num_players = 3
    /\ call.first_player_index = 2
    /\ call.single_die_round
    /\ \E p \in Players : cur_num_dice[p] = 0
    /\ Len(current_round_actions) = 2

----------------------------------------------------------------------------
(* Properties of the sequences of bids validate accepts (checked under     *)
(* SpecBids).                                                               *)

\* a measure of a bid: a bid of count wild faces weighs as 2 * count of any
\* other face, above every face of that count
BidRank(bid) ==
    IF bid.face = WILD_FACE_VAL THEN 2 * bid.count * (MAX_FACE_VAL + 1) + MAX_FACE_VAL + 1
    ELSE bid.count * (MAX_FACE_VAL + 1) + bid.face

\* C37: no sequence of bids, each accepted by validate after the one before
\* it, comes back to a bid it has made; every accepted bid weighs more than
\* its predecessor, so with counts up to a bound a sequence of bids has a
\* bounded length and the round goes on only by an action that ends it.
C37_BidsNeverCycle ==
    call.op = "Bid.validate" =>
        /\ call.nth > 1 => call.self # call.first
        /\ BidRank(call.self) >= BidRank(call.first) + (call.nth - 1)
        /\ call.nth <= BidRank(Bid(WILD_FACE_VAL, MaxCount))

\* C37 witness: a sequence of three bids or more that is back at the face it
\* began with, no wild face
C37_Witness ==
    /\ call.op = "Bid.validate"
    /\ call.nth >= 3
    /\ call.self.face = call.first.face
    /\ call.first.face # WILD_FACE_VAL

====
